---------------------------- MODULE Spec2Model ----------------------------
(***************************************************************************)
(* A model of md2hwpx: the style registry, the style preset table, the     *)
(* node renderer and the archive packager of src/md2hwpx/renderer.py and   *)
(* src/md2hwpx/style_manager.py.                                           *)
(*                                                                         *)
(* Conventions.                                                            *)
(*  - A Python str is a sequence of one-character strings, so that         *)
(*    slicing, stripping and concatenation are computed, not assumed.      *)
(*  - A point measurement (a Python float) is an integer number of tenths  *)
(*    of a point: 10.0pt is 100, 9.5pt is 95.                              *)
(*  - A Python dict is a function whose DOMAIN is the set of its keys.     *)
(*  - A method that mutates an object returns the object's new value; a    *)
(*    method that could mutate its receiver returns [result, self].        *)
(***************************************************************************)
EXTENDS Integers, Sequences, FiniteSets, TLC

VARIABLES
    reg,        \* a _StyleRegistry driven directly (specification SpecReg)
    regLog,     \* the calls made on reg so far: what was asked, what came back
    styles,     \* StyleManager._styles of each renderer's style manager
    rnd,        \* the HwpxRenderer objects: _para_id, _preview_lines, _registry
    archive,    \* what each renderer's last render() returned (<<>>: nothing yet)
    lastDoc,    \* the tree each renderer's last render() was given
    uses,       \* per renderer: "new", or render() completed "once", or "reused"
    now,        \* the wall clock, in the 2-second ticks of a ZIP timestamp
    tree,       \* the tree handed to render() (specification SpecTree)
    preset,     \* StyleManager.preset of each renderer's style manager
    fs,         \* the file system: the files, by path, and the directories
    outcome,    \* how the last call of SpecApp ended, and what it was given
    req         \* the requests of the network service, by request number

regVars == <<reg, regLog>>
rndVars == <<styles, rnd, archive, lastDoc, uses, now, tree, preset>>
appVars == <<fs, outcome, req>>
vars == <<reg, regLog, styles, rnd, archive, lastDoc, uses, now, tree, preset, fs,
          outcome, req>>

-----------------------------------------------------------------------------
(* Bounds of the model *)

MaxCalls == 4       \* registry calls in one behaviour of SpecReg
MaxClock == 2       \* the clock runs 1..MaxClock

-----------------------------------------------------------------------------
(* Strings *)

\* LET x == v IN F(x), v being evaluated once
Let(v, F(_)) == F(v)

RECURSIVE Concat(_)
\* "".join(parts)
Concat(parts) ==
    IF parts = << >> THEN << >>
    ELSE IF Len(parts) = 1 THEN parts[1]
         ELSE LET h == Len(parts) \div 2
              IN  Concat(SubSeq(parts, 1, h)) \o Concat(SubSeq(parts, h + 1, Len(parts)))

-----------------------------------------------------------------------------
(* style_manager.py : FontSpec, ParaSpec, derive *)

\* FontSpec() with the dataclass defaults
FontSpec ==
    [hangul |-> "MalgunGothic", latin |-> "Times New Roman", size_pt |-> 100,
     bold |-> FALSE, italic |-> FALSE, underline |-> FALSE,
     strikethrough |-> FALSE, color |-> "#000000", background |-> ""]

\* ParaSpec() with the dataclass defaults
ParaSpec ==
    [align |-> "both", indent_pt |-> 0, left_margin_pt |-> 0,
     right_margin_pt |-> 0, line_spacing_percent |-> 160,
     space_before_pt |-> 0, space_after_pt |-> 60]

\* A derive that builds a fresh default object instead of copying the receiver.
DeriveFromDefaults(self, overrides) ==
    LET base == IF "hangul" \in DOMAIN self THEN FontSpec ELSE ParaSpec
    IN  [result |-> [k \in DOMAIN self |->
                        IF k \in DOMAIN overrides THEN overrides[k] ELSE base[k]],
         self   |-> self]

\* A derive that sets the overrides on the receiver itself (no deepcopy).
DeriveInPlace(self, overrides) ==
    LET clone == [k \in DOMAIN self |->
                     IF k \in DOMAIN overrides THEN overrides[k] ELSE self[k]]
    IN  [result |-> clone, self |-> clone]

\* FontSpec.derive / ParaSpec.derive: clone = deepcopy(self); every override
\* naming an attribute of the clone is set on the clone; the clone is returned.
\* result is the returned object, self the receiver after the call.
Derive(self, overrides) ==
    LET clone == self
    IN  [result |-> [k \in DOMAIN clone |->
                        IF k \in DOMAIN overrides THEN overrides[k] ELSE clone[k]],
         self   |-> self]

NoOverrides == << >>

-----------------------------------------------------------------------------
(* renderer.py : _StyleRegistry *)

\* _StyleRegistry.__init__
NewRegistry ==
    [fonts |-> << >>, font_idx |-> << >>,
     char_map |-> << >>, char_list |-> << >>,
     para_map |-> << >>, para_list |-> << >>]

\* A dedup key that forgets the strikethrough flag.
CharKeyNoStrike(font) ==
    <<font.hangul, font.latin, font.size_pt, font.bold, font.italic,
      font.underline, font.color, font.background>>

\* the key tuple of register_char
CharKey(font) ==
    <<font.hangul, font.latin, font.size_pt, font.bold, font.italic,
      font.underline, font.strikethrough, font.color, font.background>>

\* the key tuple of register_para
ParaKey(para) ==
    <<para.align, para.indent_pt, para.left_margin_pt, para.right_margin_pt,
      para.line_spacing_percent, para.space_before_pt, para.space_after_pt>>

\* A register_font_name that appends without looking the name up first.
RegisterFontNameNoLookup(r, name) ==
    LET idx == Len(r.fonts)
    IN  [reg |-> [r EXCEPT !.font_idx = (name :> idx) @@ r.font_idx,
                           !.fonts = Append(r.fonts, name)],
         id  |-> idx]

\* register_font_name: [reg: the registry afterwards, id: the value returned]
RegisterFontName(r, name) ==
    IF name \in DOMAIN r.font_idx
    THEN [reg |-> r, id |-> r.font_idx[name]]
    ELSE LET idx == Len(r.fonts)
         IN  [reg |-> [r EXCEPT !.font_idx = (name :> idx) @@ r.font_idx,
                                !.fonts = Append(r.fonts, name)],
              id  |-> idx]

\* A register_char that forgets to register the secondary-script font name.
RegisterCharNoLatin(r, font) ==
    LET key == CharKey(font)
    IN  IF key \in DOMAIN r.char_map
        THEN [reg |-> r, id |-> r.char_map[key]]
        ELSE LET cid == Len(r.char_list)
                 r1  == [r EXCEPT !.char_map = (key :> cid) @@ r.char_map,
                                  !.char_list = Append(r.char_list, font)]
             IN  [reg |-> RegisterFontName(r1, font.hangul).reg, id |-> cid]

\* register_char
RegisterChar(r, font) ==
    LET key == CharKey(font)
    IN  IF key \in DOMAIN r.char_map
        THEN [reg |-> r, id |-> r.char_map[key]]
        ELSE LET cid == Len(r.char_list)
                 r1  == [r EXCEPT !.char_map = (key :> cid) @@ r.char_map,
                                  !.char_list = Append(r.char_list, font)]
                 r2  == RegisterFontName(r1, font.hangul).reg
                 r3  == RegisterFontName(r2, font.latin).reg
             IN  [reg |-> r3, id |-> cid]

\* register_para
RegisterPara(r, para) ==
    LET key == ParaKey(para)
    IN  IF key \in DOMAIN r.para_map
        THEN [reg |-> r, id |-> r.para_map[key]]
        ELSE LET pid == Len(r.para_list)
             IN  [reg |-> [r EXCEPT !.para_map = (key :> pid) @@ r.para_map,
                                    !.para_list = Append(r.para_list, para)],
                  id  |-> pid]

\* _StyleRegistry.font_idx: self._font_idx.get(name, 0)
FontIdx(r, name) ==
    IF name \in DOMAIN r.font_idx THEN r.font_idx[name] ELSE 0

-----------------------------------------------------------------------------
(* The registry driven directly: any sequence of register_* calls *)

\* font names, character styles and paragraph styles offered to the registry
RegNames == {"MalgunGothic", "Times New Roman", "D2Coding"}

RegFonts ==
    {FontSpec,
     [FontSpec EXCEPT !.strikethrough = TRUE],
     [FontSpec EXCEPT !.hangul = "D2Coding", !.latin = "Consolas"],
     [FontSpec EXCEPT !.hangul = "Batang", !.latin = "Batang", !.size_pt = 110]}

RegParas ==
    {ParaSpec,
     [ParaSpec EXCEPT !.align = "center"],
     [ParaSpec EXCEPT !.left_margin_pt = 200, !.indent_pt = -100]}

\* <<len(fonts), len(char_properties), len(para_properties)>>
RegSizes(r) == <<Len(r.fonts), Len(r.char_list), Len(r.para_list)>>

\* one line of regLog: the call, its argument, the id returned, the sizes of
\* the three lists and the font list after it; derived: the argument is what derive() with no
\* overrides returned for orig (otherwise orig is the argument itself)
LogEntry(op, arg, res, derived, orig) ==
    [op |-> op, arg |-> arg, ret |-> res.id, sizes |-> RegSizes(res.reg),
     fonts |-> res.reg.fonts, derived |-> derived, orig |-> orig]

\* the sizes of the three lists before call i of regLog
SizesBefore(i) == IF i = 1 THEN <<0, 0, 0>> ELSE regLog[i - 1].sizes

\* fonts() before call i of regLog
FontsBefore(i) == IF i = 1 THEN << >> ELSE regLog[i - 1].fonts

\* reg.register_font_name(name)
CallRegisterFontName(name) ==
    /\ Len(regLog) < MaxCalls
    /\ LET res == RegisterFontName(reg, name)
       IN  /\ reg' = res.reg
           /\ regLog' = Append(regLog, LogEntry("font", name, res, FALSE, name))
    /\ UNCHANGED <<rndVars, appVars>>

\* reg.register_char(font)
CallRegisterChar(font) ==
    /\ Len(regLog) < MaxCalls
    /\ LET res == RegisterChar(reg, font)
       IN  /\ reg' = res.reg
           /\ regLog' = Append(regLog, LogEntry("char", font, res, FALSE, font))
    /\ UNCHANGED <<rndVars, appVars>>

\* reg.register_para(para)
CallRegisterPara(para) ==
    /\ Len(regLog) < MaxCalls
    /\ LET res == RegisterPara(reg, para)
       IN  /\ reg' = res.reg
           /\ regLog' = Append(regLog, LogEntry("para", para, res, FALSE, para))
    /\ UNCHANGED <<rndVars, appVars>>

\* reg.register_char(font.derive())
CallRegisterDerivedChar(font) ==
    /\ Len(regLog) < MaxCalls
    /\ LET d   == Derive(font, NoOverrides).result
           res == RegisterChar(reg, d)
       IN  /\ reg' = res.reg
           /\ regLog' = Append(regLog, LogEntry("char", d, res, TRUE, font))
    /\ UNCHANGED <<rndVars, appVars>>

\* reg.register_para(para.derive())
CallRegisterDerivedPara(para) ==
    /\ Len(regLog) < MaxCalls
    /\ LET d   == Derive(para, NoOverrides).result
           res == RegisterPara(reg, d)
       IN  /\ reg' = res.reg
           /\ regLog' = Append(regLog, LogEntry("para", d, res, TRUE, para))
    /\ UNCHANGED <<rndVars, appVars>>

InitReg ==
    /\ reg = NewRegistry
    /\ regLog = << >>
    /\ styles = << >>
    /\ rnd = << >>
    /\ archive = << >>
    /\ lastDoc = << >>
    /\ uses = << >>
    /\ now = 0
    /\ tree = << >>
    /\ preset = << >>
    /\ fs = << >>
    /\ outcome = << >>
    /\ req = << >>

NextReg ==
    \/ \E name \in RegNames : CallRegisterFontName(name)
    \/ \E font \in RegFonts : CallRegisterChar(font)
    \/ \E para \in RegParas : CallRegisterPara(para)
    \/ \E font \in RegFonts : CallRegisterDerivedChar(font)
    \/ \E para \in RegParas : CallRegisterDerivedPara(para)

SpecReg == InitReg /\ [][NextReg]_vars

-----------------------------------------------------------------------------
(* Properties of the registry (specification SpecReg) *)

LogIdx == 1..Len(regLog)

RECURSIVE Dedup(_, _)
\* seq without the later occurrences of each value (seen: values already kept)
Dedup(seq, seen) ==
    IF seq = << >> THEN << >>
    ELSE IF Head(seq) \in seen THEN Dedup(Tail(seq), seen)
         ELSE <<Head(seq)>> \o Dedup(Tail(seq), seen \cup {Head(seq)})

RECURSIVE ArgsOf(_, _)
\* the arguments of the calls op among the first n calls, in call order
ArgsOf(op, n) ==
    IF n = 0 THEN << >>
    ELSE ArgsOf(op, n - 1) \o
         (IF regLog[n].op = op THEN <<regLog[n].arg>> ELSE << >>)

RECURSIVE NamesOf(_)
\* the font names the first n calls brought in, in call order
NamesOf(n) ==
    IF n = 0 THEN << >>
    ELSE NamesOf(n - 1) \o
         (CASE regLog[n].op = "font" -> <<regLog[n].arg>>
            [] regLog[n].op = "char" -> <<regLog[n].arg.hangul, regLog[n].arg.latin>>
            [] OTHER -> << >>)

\* C2: in any sequence of register_font_name / register_char / register_para
\* calls on one registry, a call whose value equals (field for field) the value
\* of an earlier call of the same kind returns the id the earlier call
\* returned and adds no entry to any list, and two calls of the same kind with
\* different values never return the same id.
C2_IdStability ==
    \A i \in LogIdx : \A j \in LogIdx :
        (i < j /\ regLog[i].op = regLog[j].op) =>
            IF regLog[i].arg = regLog[j].arg
            THEN /\ regLog[j].ret = regLog[i].ret
                 /\ regLog[j].sizes = SizesBefore(j)
            ELSE regLog[j].ret # regLog[i].ret

\* a value was registered twice, and two different values of one kind were
C2_Witness ==
    /\ \E i \in LogIdx : \E j \in LogIdx :
          i < j /\ regLog[i].op = "char" /\ regLog[j].op = "char"
                /\ regLog[i].arg = regLog[j].arg
    /\ \E i \in LogIdx : \E j \in LogIdx :
          i < j /\ regLog[i].op = "char" /\ regLog[j].op = "char"
                /\ regLog[i].arg # regLog[j].arg

\* C3: after any sequence of registrations each list (fonts, char_properties,
\* para_properties) holds exactly the distinct values registered so far in
\* first-seen order, so the ids are 0..n-1; every id ever handed out is the
\* index, in the current list, of the value it was handed out for (no later
\* registration removed or moved it); and the id maps cover exactly 0..n-1.
C3_DenseFirstSeen ==
    /\ reg.fonts = Dedup(NamesOf(Len(regLog)), {})
    /\ reg.char_list = Dedup(ArgsOf("char", Len(regLog)), {})
    /\ reg.para_list = Dedup(ArgsOf("para", Len(regLog)), {})
    /\ \A i \in LogIdx :
          LET e == regLog[i]
              list == CASE e.op = "font" -> reg.fonts
                        [] e.op = "char" -> reg.char_list
                        [] OTHER -> reg.para_list
          IN  /\ e.ret \in 0..(Len(list) - 1)
              /\ list[e.ret + 1] = e.arg
    /\ {reg.font_idx[k] : k \in DOMAIN reg.font_idx} = 0..(Len(reg.fonts) - 1)
    /\ {reg.char_map[k] : k \in DOMAIN reg.char_map} = 0..(Len(reg.char_list) - 1)
    /\ {reg.para_map[k] : k \in DOMAIN reg.para_map} = 0..(Len(reg.para_list) - 1)

\* a name was registered again after two distinct names, and a later call added
\* entries behind an id handed out earlier
C3_Witness ==
    /\ Len(reg.fonts) >= 3
    /\ Len(reg.char_list) >= 2
    /\ \E i \in LogIdx : \E j \in LogIdx :
          i < j /\ regLog[i].op = "font" /\ regLog[j].op = "font"
                /\ regLog[i].arg = regLog[j].arg

\* C10: a font (or paragraph) specification derived with no overrides has the
\* dedup key of the original: registering it after the original returns the
\* original's id and adds no entry to the registry.
C10_DeriveNoOverrides ==
    \A j \in LogIdx :
      /\ regLog[j].derived =>
            IF regLog[j].op = "char" THEN CharKey(regLog[j].arg) = CharKey(regLog[j].orig)
            ELSE ParaKey(regLog[j].arg) = ParaKey(regLog[j].orig)
      /\ \A i \in LogIdx :
        (/\ i < j
         /\ regLog[j].derived
         /\ regLog[i].op = regLog[j].op
         /\ ~regLog[i].derived
         /\ regLog[i].arg = regLog[j].orig)
        => /\ regLog[j].ret = regLog[i].ret
           /\ regLog[j].sizes = SizesBefore(j)

\* a non-default font and a non-default paragraph specification were each
\* registered and then registered again through derive()
C10_Witness ==
    /\ \E i \in LogIdx : \E j \in LogIdx :
          /\ i < j /\ regLog[j].derived /\ ~regLog[i].derived
          /\ regLog[i].op = "char" /\ regLog[j].op = "char"
          /\ regLog[i].arg = regLog[j].orig /\ regLog[j].orig # FontSpec
    /\ \E i \in LogIdx : \E j \in LogIdx :
          /\ i < j /\ regLog[j].derived /\ ~regLog[i].derived
          /\ regLog[i].op = "para" /\ regLog[j].op = "para"
          /\ regLog[i].arg = regLog[j].orig /\ regLog[j].orig # ParaSpec

-----------------------------------------------------------------------------
(* Python str operations used by the renderer *)

IsSpace(c) == c \in {" ", "\n", "\t"}

RECURSIVE LStrip(_)
LStrip(s) ==
    IF s # << >> /\ IsSpace(Head(s)) THEN LStrip(Tail(s)) ELSE s

RECURSIVE RStrip(_)
\* str.rstrip()
RStrip(s) ==
    IF s # << >> /\ IsSpace(s[Len(s)]) THEN RStrip(SubSeq(s, 1, Len(s) - 1)) ELSE s

\* str.strip()
Strip(s) == RStrip(LStrip(s))

\* s[:n]
Take(s, n) == SubSeq(s, 1, IF Len(s) < n THEN Len(s) ELSE n)

\* s.replace("\n", " ")
FlattenNewlines(s) == [i \in 1..Len(s) |-> IF s[i] = "\n" THEN " " ELSE s[i]]

RECURSIVE SplitLines(_, _)
\* s.split("\n"), cur being the line collected so far
SplitLines(s, cur) ==
    IF s = << >> THEN <<cur>>
    ELSE IF Head(s) = "\n" THEN <<cur>> \o SplitLines(Tail(s), << >>)
         ELSE SplitLines(Tail(s), Append(cur, Head(s)))

\* "\n".join(lines)
JoinLines(lines) ==
    Concat([i \in 1..(2 * Len(lines) - 1) |->
               IF i % 2 = 1 THEN lines[(i + 1) \div 2] ELSE <<"\n">>])

Digit(d) == <<"0", "1", "2", "3", "4", "5", "6", "7", "8", "9">>[d + 1]

RECURSIVE NatStr(_)
NatStr(n) == IF n < 10 THEN <<Digit(n)>> ELSE NatStr(n \div 10) \o <<Digit(n % 10)>>

\* str(n) of an int
IntStr(n) == IF n < 0 THEN <<"-">> \o NatStr(0 - n) ELSE NatStr(n)

\* c * n
Repeat(c, n) == IF n <= 0 THEN << >> ELSE [i \in 1..n |-> c]

-----------------------------------------------------------------------------
(* style_manager.py : the preset table and StyleManager *)

StyleDef(name, font, para) == [name |-> name, font |-> font, para |-> para]

HeadingSizes == <<220, 180, 140, 120, 110, 100>>
HeadingSpaceBefore == <<160, 140, 120, 100, 80, 60>>
HeadingSpaceAfter == <<100, 80, 60, 60, 40, 40>>

HeadingName(level) ==
    <<"heading_1", "heading_2", "heading_3", "heading_4", "heading_5",
      "heading_6">>[level]

StyleNames ==
    {HeadingName(l) : l \in 1..6} \cup
    {"body", "code_block", "inline_code", "blockquote", "table_header",
     "table_body", "list_item", "footnote", "horizontal_rule"}

\* _build_default_styles
BuildDefaultStyles ==
    LET body_font == [FontSpec EXCEPT !.hangul = "MalgunGothic",
                                      !.latin = "Times New Roman",
                                      !.size_pt = 100]
        body_para == [ParaSpec EXCEPT !.align = "both",
                                      !.line_spacing_percent = 160,
                                      !.space_after_pt = 60]
        heading(l) ==
            StyleDef(HeadingName(l),
                Derive(body_font, [size_pt |-> HeadingSizes[l], bold |-> TRUE]).result,
                Derive(body_para, [align |-> "left",
                                   space_before_pt |-> HeadingSpaceBefore[l],
                                   space_after_pt |-> HeadingSpaceAfter[l]]).result)
        other ==
            [body |-> StyleDef("body", body_font, body_para),
             code_block |-> StyleDef("code_block",
                [FontSpec EXCEPT !.hangul = "D2Coding", !.latin = "Consolas",
                                 !.size_pt = 90, !.color = "#000000",
                                 !.background = "#f5f5f5"],
                [ParaSpec EXCEPT !.align = "left", !.line_spacing_percent = 150,
                                 !.space_before_pt = 40, !.space_after_pt = 40]),
             inline_code |-> StyleDef("inline_code",
                [FontSpec EXCEPT !.hangul = "D2Coding", !.latin = "Consolas",
                                 !.size_pt = 90, !.color = "#333333",
                                 !.background = "#f0f0f0"],
                body_para),
             blockquote |-> StyleDef("blockquote",
                Derive(body_font, [italic |-> TRUE]).result,
                Derive(body_para, [left_margin_pt |-> 200, space_before_pt |-> 40,
                                   space_after_pt |-> 40]).result),
             table_header |-> StyleDef("table_header",
                Derive(body_font, [bold |-> TRUE, size_pt |-> 90]).result,
                Derive(body_para, [align |-> "center", space_after_pt |-> 20,
                                   space_before_pt |-> 20]).result),
             table_body |-> StyleDef("table_body",
                Derive(body_font, [size_pt |-> 90]).result,
                Derive(body_para, [align |-> "left", space_after_pt |-> 20,
                                   space_before_pt |-> 20]).result),
             list_item |-> StyleDef("list_item",
                body_font,
                Derive(body_para, [left_margin_pt |-> 200, indent_pt |-> -100]).result),
             footnote |-> StyleDef("footnote",
                Derive(body_font, [size_pt |-> 80]).result,
                Derive(body_para, [line_spacing_percent |-> 140,
                                   space_after_pt |-> 20]).result),
             horizontal_rule |-> StyleDef("horizontal_rule",
                Derive(body_font, [size_pt |-> 20]).result,
                Derive(body_para, [space_before_pt |-> 80,
                                   space_after_pt |-> 80]).result)]
    IN  [n \in StyleNames |->
            IF n \in DOMAIN other THEN other[n]
            ELSE heading(CHOOSE l \in 1..6 : HeadingName(l) = n)]

\* the part the academic, business and minimal presets share: the default
\* preset with the heading styles rebuilt from body_font and body_para and
\* the styles of other put in place of the default ones
OverDefaultStyles(body_font, body_para, sizes, before, after, other) ==
    [n \in StyleNames |->
        IF n \in DOMAIN other THEN other[n]
        ELSE IF \E l \in 1..6 : HeadingName(l) = n
        THEN Let(CHOOSE l \in 1..6 : HeadingName(l) = n, LAMBDA l :
             StyleDef(n,
                 Derive(body_font, [size_pt |-> sizes[l], bold |-> TRUE]).result,
                 Derive(body_para, [align |-> "left",
                                    space_before_pt |-> before[l],
                                    space_after_pt |-> after[l]]).result))
        ELSE BuildDefaultStyles[n]]

\* _build_academic_styles
BuildAcademicStyles ==
    LET body_font == [FontSpec EXCEPT !.hangul = "Batang",
                                      !.latin = "Times New Roman",
                                      !.size_pt = 110]
        body_para == [ParaSpec EXCEPT !.align = "both",
                                      !.line_spacing_percent = 200,
                                      !.space_after_pt = 80]
    IN  OverDefaultStyles(body_font, body_para,
            <<240, 200, 160, 130, 120, 110>>,
            <<200, 160, 140, 120, 100, 80>>,
            <<120, 100, 80, 80, 60, 60>>,
            [body |-> StyleDef("body", body_font, body_para),
             code_block |-> StyleDef("code_block",
                [FontSpec EXCEPT !.hangul = "D2Coding", !.latin = "Courier New",
                                 !.size_pt = 95,
                                 !.background = "#f5f5f5"],
                [ParaSpec EXCEPT !.align = "left",
                                 !.line_spacing_percent = 160,
                                 !.space_before_pt = 60,
                                 !.space_after_pt = 60]),
             inline_code |-> StyleDef("inline_code",
                [FontSpec EXCEPT !.hangul = "D2Coding", !.latin = "Courier New",
                                 !.size_pt = 95, !.color = "#333333",
                                 !.background = "#f0f0f0"],
                body_para),
             blockquote |-> StyleDef("blockquote",
                Derive(body_font, [italic |-> TRUE]).result,
                Derive(body_para, [left_margin_pt |-> 240,
                                   space_before_pt |-> 60,
                                   space_after_pt |-> 60]).result),
             table_header |-> StyleDef("table_header",
                Derive(body_font, [bold |-> TRUE, size_pt |-> 100]).result,
                Derive(body_para, [align |-> "center", space_after_pt |-> 30,
                                   space_before_pt |-> 30]).result),
             table_body |-> StyleDef("table_body",
                Derive(body_font, [size_pt |-> 100]).result,
                Derive(body_para, [align |-> "left", space_after_pt |-> 30,
                                   space_before_pt |-> 30]).result),
             list_item |-> StyleDef("list_item",
                body_font,
                Derive(body_para, [left_margin_pt |-> 240,
                                   indent_pt |-> -120]).result),
             footnote |-> StyleDef("footnote",
                Derive(body_font, [size_pt |-> 90]).result,
                Derive(body_para, [line_spacing_percent |-> 150,
                                   space_after_pt |-> 30]).result)])

\* _build_business_styles
BuildBusinessStyles ==
    LET body_font == [FontSpec EXCEPT !.hangul = "MalgunGothic",
                                      !.latin = "Arial",
                                      !.size_pt = 100]
        body_para == [ParaSpec EXCEPT !.align = "left",
                                      !.line_spacing_percent = 150,
                                      !.space_after_pt = 40]
    IN  OverDefaultStyles(body_font, body_para,
            <<200, 160, 130, 110, 105, 100>>,
            <<140, 120, 100, 80, 60, 60>>,
            <<80, 60, 40, 40, 40, 40>>,
            [body |-> StyleDef("body", body_font, body_para),
             code_block |-> StyleDef("code_block",
                [FontSpec EXCEPT !.hangul = "D2Coding", !.latin = "Consolas",
                                 !.size_pt = 90,
                                 !.background = "#f5f5f5"],
                [ParaSpec EXCEPT !.align = "left",
                                 !.line_spacing_percent = 140,
                                 !.space_before_pt = 40,
                                 !.space_after_pt = 40]),
             inline_code |-> StyleDef("inline_code",
                [FontSpec EXCEPT !.hangul = "D2Coding", !.latin = "Consolas",
                                 !.size_pt = 90, !.color = "#333333",
                                 !.background = "#f0f0f0"],
                body_para),
             blockquote |-> StyleDef("blockquote",
                Derive(body_font, [italic |-> TRUE, color |-> "#555555"]).result,
                Derive(body_para, [left_margin_pt |-> 160,
                                   space_before_pt |-> 40,
                                   space_after_pt |-> 40]).result),
             table_header |-> StyleDef("table_header",
                Derive(body_font, [bold |-> TRUE, size_pt |-> 90]).result,
                Derive(body_para, [align |-> "center", space_after_pt |-> 20,
                                   space_before_pt |-> 20]).result),
             table_body |-> StyleDef("table_body",
                Derive(body_font, [size_pt |-> 90]).result,
                Derive(body_para, [align |-> "left", space_after_pt |-> 20,
                                   space_before_pt |-> 20]).result),
             list_item |-> StyleDef("list_item",
                body_font,
                Derive(body_para, [left_margin_pt |-> 180,
                                   indent_pt |-> -90]).result),
             footnote |-> StyleDef("footnote",
                Derive(body_font, [size_pt |-> 80]).result,
                Derive(body_para, [line_spacing_percent |-> 130,
                                   space_after_pt |-> 20]).result)])

\* _build_minimal_styles
BuildMinimalStyles ==
    LET body_font == [FontSpec EXCEPT !.hangul = "NanumGothic",
                                      !.latin = "Helvetica Neue",
                                      !.size_pt = 100]
        body_para == [ParaSpec EXCEPT !.align = "left",
                                      !.line_spacing_percent = 145,
                                      !.space_after_pt = 30]
    IN  OverDefaultStyles(body_font, body_para,
            <<180, 150, 125, 110, 105, 100>>,
            <<120, 100, 80, 60, 40, 40>>,
            <<60, 50, 40, 30, 30, 30>>,
            [body |-> StyleDef("body", body_font, body_para),
             code_block |-> StyleDef("code_block",
                [FontSpec EXCEPT !.hangul = "D2Coding", !.latin = "Menlo",
                                 !.size_pt = 90,
                                 !.background = "#fafafa"],
                [ParaSpec EXCEPT !.align = "left",
                                 !.line_spacing_percent = 140,
                                 !.space_before_pt = 30,
                                 !.space_after_pt = 30]),
             inline_code |-> StyleDef("inline_code",
                [FontSpec EXCEPT !.hangul = "D2Coding", !.latin = "Menlo",
                                 !.size_pt = 90, !.color = "#333333",
                                 !.background = "#f0f0f0"],
                body_para),
             blockquote |-> StyleDef("blockquote",
                Derive(body_font, [italic |-> TRUE, color |-> "#666666"]).result,
                Derive(body_para, [left_margin_pt |-> 140,
                                   space_before_pt |-> 30,
                                   space_after_pt |-> 30]).result),
             table_header |-> StyleDef("table_header",
                Derive(body_font, [bold |-> TRUE, size_pt |-> 90]).result,
                Derive(body_para, [align |-> "center", space_after_pt |-> 10,
                                   space_before_pt |-> 10]).result),
             table_body |-> StyleDef("table_body",
                Derive(body_font, [size_pt |-> 90]).result,
                Derive(body_para, [align |-> "left", space_after_pt |-> 10,
                                   space_before_pt |-> 10]).result),
             list_item |-> StyleDef("list_item",
                body_font,
                Derive(body_para, [left_margin_pt |-> 160,
                                   indent_pt |-> -80]).result),
             footnote |-> StyleDef("footnote",
                Derive(body_font, [size_pt |-> 80]).result,
                Derive(body_para, [line_spacing_percent |-> 130,
                                   space_after_pt |-> 20]).result)])

\* StyleManager.PRESETS, the keys of _PRESET_BUILDERS
Presets == {"default", "academic", "business", "minimal"}

\* A preset table that knows the default preset only.
LoadPresetDefaultOnly(name) == BuildDefaultStyles

\* StyleManager._load_preset: self._styles = _PRESET_BUILDERS[preset]()
LoadPreset(name) ==
    CASE name = "default" -> BuildDefaultStyles
      [] name = "academic" -> BuildAcademicStyles
      [] name = "business" -> BuildBusinessStyles
      [] name = "minimal" -> BuildMinimalStyles

\* the key of _styles that get_style(name) reads: name, or "body" when missing
StyleKey(sty, name) == IF name \in DOMAIN sty THEN name ELSE "body"

\* StyleManager.get_style: self._styles.get(name, self._styles["body"])
GetStyle(sty, name) == sty[StyleKey(sty, name)]

\* StyleManager.get_inline_code_font
GetInlineCodeFont(sty) == GetStyle(sty, "inline_code").font

\* the font object of style name after a derive() called on it left it as font
PutFont(sty, name, font) == [sty EXCEPT ![StyleKey(sty, name)].font = font]

\* the paragraph object of style name after a derive() called on it left it as para
PutPara(sty, name, para) == [sty EXCEPT ![StyleKey(sty, name)].para = para]

-----------------------------------------------------------------------------
(* parser.py : ASTNode *)

\* ASTNode(type=type) with the dataclass defaults
Node(type) ==
    [type |-> type, children |-> << >>, text |-> << >>, level |-> 0,
     language |-> << >>, url |-> << >>, title |-> << >>, alt |-> << >>,
     align |-> "", is_header |-> FALSE, checked |-> FALSE,
     footnote_id |-> << >>, start |-> 1]

\* a or b, for Python strings
Or(a, b) == IF a # << >> THEN a ELSE b

-----------------------------------------------------------------------------
(* renderer.py : helpers *)

RECURSIVE ExtractPlainText(_)
RECURSIVE ExtractPlainTexts(_)
\* _extract_plain_text
ExtractPlainText(node) == node.text \o ExtractPlainTexts(node.children)

ExtractPlainTexts(children) ==
    IF children = << >> THEN << >>
    ELSE ExtractPlainText(Head(children)) \o ExtractPlainTexts(Tail(children))

\* _color_to_hex, on "" and on the "#RRGGBB" colours (the only ones in use)
ColorToHex(color) == IF color = "" THEN "#000000" ELSE color

\* (text, font), one element of a run list
Run(text, font) == [text |-> text, font |-> font]

-----------------------------------------------------------------------------
(* renderer.py : inline run collection.  The collectors return                *)
(* [runs: the run list, base: the base_font object after the call].           *)

S_Image == <<"i", "m", "a", "g", "e">>
S_ImageOpen == <<"[", "I", "m", "a", "g", "e", ":", " ">>

LinkOverrides == [underline |-> TRUE, color |-> "#0563C1"]
ImageOverrides == [italic |-> TRUE, color |-> "#666666"]
FootnoteRefOverrides == [size_pt |-> 70, color |-> "#0000FF"]

RECURSIVE CollectInlineRuns(_, _, _)
RECURSIVE CollectInlineChildren(_, _, _)
RECURSIVE CollectInlineChild(_, _, _)

\* _collect_inline_runs
CollectInlineRuns(node, base_font, sty) ==
    IF node.text # << >> /\ node.children = << >>
    THEN [runs |-> <<Run(node.text, base_font)>>, base |-> base_font]
    ELSE CollectInlineChildren(node.children, base_font, sty)

\* the loop of _collect_inline_runs over node.children
CollectInlineChildren(children, base_font, sty) ==
    IF children = << >> THEN [runs |-> << >>, base |-> base_font]
    ELSE Let(CollectInlineChild(Head(children), base_font, sty), LAMBDA c :
         Let(CollectInlineChildren(Tail(children), c.base, sty), LAMBDA rest :
         [runs |-> c.runs \o rest.runs, base |-> rest.base]))

\* font = base_font.derive(overrides); runs.extend(self._collect_inline_runs(
\* node, font))
CollectDerived(node, base_font, sty, overrides) ==
    Let(Derive(base_font, overrides), LAMBDA d :
    [runs |-> CollectInlineRuns(node, d.result, sty).runs, base |-> d.self])

\* one run of text in the font font, derived from base_font by overrides
CollectOneDerived(text, base_font, overrides) ==
    Let(Derive(base_font, overrides), LAMBDA d :
    [runs |-> <<Run(text, d.result)>>, base |-> d.self])

\* if text: runs.append((text, font))
CollectPlain(text, font, base_font) ==
    [runs |-> IF text # << >> THEN <<Run(text, font)>> ELSE << >>,
     base |-> base_font]

\* _collect_inline_child
CollectInlineChild(node, base_font, sty) ==
    LET nt == node.type
    IN  CASE nt = "text" ->
                CollectPlain(IF node.text = << >> /\ node.children # << >>
                             THEN ExtractPlainText(node) ELSE node.text,
                             base_font, base_font)
          [] nt = "bold" -> CollectDerived(node, base_font, sty, [bold |-> TRUE])
          [] nt = "italic" -> CollectDerived(node, base_font, sty, [italic |-> TRUE])
          [] nt = "strikethrough" ->
                CollectDerived(node, base_font, sty, [strikethrough |-> TRUE])
          [] nt = "inline_code" ->
                CollectPlain(Or(node.text, ExtractPlainText(node)),
                             GetInlineCodeFont(sty), base_font)
          [] nt = "link" -> CollectDerived(node, base_font, sty, LinkOverrides)
          [] nt = "image" ->
                CollectOneDerived(
                    S_ImageOpen \o Or(node.alt, Or(node.title, S_Image)) \o <<"]">>,
                    base_font, ImageOverrides)
          [] nt = "footnote_ref" ->
                CollectOneDerived(<<"[">> \o node.footnote_id \o <<"]">>,
                                  base_font, FootnoteRefOverrides)
          [] nt = "line_break" -> [runs |-> <<Run(<<"\n">>, base_font)>>, base |-> base_font]
          [] nt = "soft_break" -> [runs |-> <<Run(<<" ">>, base_font)>>, base |-> base_font]
          [] OTHER -> CollectPlain(ExtractPlainText(node), base_font, base_font)

-----------------------------------------------------------------------------
(* renderer.py : the paragraph builder.  A renderer state st is              *)
(* [para_id, preview_lines, registry, styles]; a builder returns the state   *)
(* afterwards with what it built.                                            *)

\* an hp:run element: ctrl is what the run holds beside its text
\* ("none", "tbl" with the table in tbl, or "secPr")
RunEl(char_pr_id, text, ctrl, tbl) ==
    [charPrIDRef |-> char_pr_id, t |-> text, ctrl |-> ctrl, tbl |-> tbl]

\* an hp:p element
ParaEl(id, para_pr_id, runs) ==
    [id |-> id, paraPrIDRef |-> para_pr_id, styleIDRef |-> 0, runs |-> runs]

RECURSIVE MakeRuns(_, _)
\* the loop of _make_paragraph over runs: [reg, els]
MakeRuns(r, runs) ==
    IF runs = << >> THEN [els |-> << >>, reg |-> r]
    ELSE IF Head(runs).text = << >> THEN MakeRuns(r, Tail(runs))
    ELSE Let(RegisterChar(r, Head(runs).font), LAMBDA c :
         Let(MakeRuns(c.reg, Tail(runs)), LAMBDA rest :
         [els |-> <<RunEl(c.id, Head(runs).text, "none", << >>)>> \o rest.els,
          reg |-> rest.reg]))

\* _make_paragraph: [st, el]
MakeParagraph(st, runs, para_spec) ==
    Let(RegisterPara(st.registry, para_spec), LAMBDA p :
    Let(MakeRuns(p.reg, runs), LAMBDA rs :
    [st |-> [st EXCEPT !.para_id = st.para_id + 1, !.registry = rs.reg],
     el |-> ParaEl(st.para_id + 1, p.id, rs.els)]))

\* A preview buffer that takes each new line at the front.
AddPreviewFront(st, line) == [st EXCEPT !.preview_lines = <<line>> \o @]

\* self._preview_lines.append(line)
AddPreview(st, line) == [st EXCEPT !.preview_lines = Append(@, line)]

\* a renderer's result: the state afterwards and the elements returned
Out(st, els) == [els |-> els, st |-> st]

\* return [para] for the paragraph mp that _make_paragraph built
One(mp) == Out(mp.st, <<mp.el>>)

\* self._preview_lines.append(line); return [para]
OneWithPreview(mp, line) == Out(AddPreview(mp.st, line), <<mp.el>>)

\* the result of a renderer that makes one paragraph when runs is not empty
ParagraphIf(st, runs, para_spec) ==
    IF runs = << >> THEN Out(st, << >>)
    ELSE One(MakeParagraph(st, runs, para_spec))

-----------------------------------------------------------------------------
(* renderer.py : the per-NodeType renderers that do not dispatch further *)

Max(a, b) == IF a > b THEN a ELSE b
Min(a, b) == IF a < b THEN a ELSE b

\* A heading renderer that trusts node.level to be 1..6 already.
RenderHeadingStyleNameUnclamped(level) ==
    HeadingName(IF level \in 1..6 THEN level ELSE 1)

\* the style name _render_heading looks up: level = max(1, min(6, node.level))
RenderHeadingStyleName(level) == HeadingName(Max(1, Min(6, level)))

\* _render_heading
RenderHeading(st, node) ==
    Let(RenderHeadingStyleName(node.level), LAMBDA name :
    Let(CollectInlineRuns(node, GetStyle(st.styles, name).font, st.styles), LAMBDA c :
    Let([st EXCEPT !.styles = PutFont(@, name, c.base)], LAMBDA st1 :
    OneWithPreview(MakeParagraph(st1, c.runs, GetStyle(st1.styles, name).para),
                   ExtractPlainText(node)))))

\* _render_paragraph
RenderParagraph(st, node) ==
    Let(CollectInlineRuns(node, GetStyle(st.styles, "body").font, st.styles), LAMBDA c :
    Let([st EXCEPT !.styles = PutFont(@, "body", c.base)], LAMBDA st1 :
    IF c.runs = << >> THEN Out(st1, << >>)
    ELSE Let(MakeParagraph(st1, c.runs, GetStyle(st1.styles, "body").para), LAMBDA mp :
         Let(ExtractPlainText(node), LAMBDA text :
         Out(IF Strip(text) # << >> THEN AddPreview(mp.st, text) ELSE mp.st,
             <<mp.el>>)))))

\* _render_text
RenderText(st, node) ==
    IF node.text = << >> THEN Out(st, << >>)
    ELSE LET style == GetStyle(st.styles, "body")
         IN  OneWithPreview(
                 MakeParagraph(st, <<Run(node.text, style.font)>>, style.para),
                 node.text)

\* _render_bold, _render_italic, _render_strikethrough (overrides: the one
\* field each sets)
RenderEmphasis(st, node, overrides) ==
    Let(Derive(GetStyle(st.styles, "body").font, overrides), LAMBDA d :
    Let([st EXCEPT !.styles = PutFont(@, "body", d.self)], LAMBDA st1 :
    ParagraphIf(st1, CollectInlineRuns(node, d.result, st1.styles).runs,
                GetStyle(st1.styles, "body").para)))

\* _render_inline_code
RenderInlineCode(st, node) ==
    Let(Or(node.text, ExtractPlainText(node)), LAMBDA text :
    IF text = << >> THEN Out(st, << >>)
    ELSE ParagraphIf(st, <<Run(text, GetInlineCodeFont(st.styles))>>,
                     GetStyle(st.styles, "body").para))

RECURSIVE CodeLines(_, _, _)
\* the loop of _render_code_block over lines
CodeLines(st, lines, style) ==
    IF lines = << >> THEN Out(st, << >>)
    ELSE Let(MakeParagraph(st, <<Run(IF Head(lines) # << >> THEN Head(lines)
                                     ELSE <<" ">>, style.font)>>, style.para),
             LAMBDA mp :
         Let(CodeLines(mp.st, Tail(lines), style), LAMBDA rest :
         Out(rest.st, <<mp.el>> \o rest.els)))

S_CodeOpen == <<"[", "C", "o", "d", "e", ":", " ">>

\* text.split("\n"), less the trailing empty line
CodeBlockLines(text) ==
    Let(SplitLines(text, << >>), LAMBDA all :
    IF all[Len(all)] = << >> THEN SubSeq(all, 1, Len(all) - 1) ELSE all)

\* _render_code_block
RenderCodeBlock(st, node) ==
    Let(CodeLines(st, CodeBlockLines(node.text), GetStyle(st.styles, "code_block")),
        LAMBDA body :
    Out(AddPreview(body.st, S_CodeOpen \o FlattenNewlines(Take(node.text, 200))
                            \o <<"]">>),
        body.els))

\* the non-ASCII characters the renderer writes, each one character of a str
BoxLine == "U+2500"
Bullets == <<"U+2022", "U+25E6", "U+25AA">>
CheckedBox == "U+2611"
UncheckedBox == "U+2610"

HrWidth == 40

\* _render_horizontal_rule
RenderHorizontalRule(st, node) ==
    Let(GetStyle(st.styles, "horizontal_rule"), LAMBDA style :
    Let(Derive(style.para, [align |-> "center"]), LAMBDA d :
    OneWithPreview(
        MakeParagraph([st EXCEPT !.styles = PutPara(@, "horizontal_rule", d.self)],
                      <<Run(Repeat(BoxLine, HrWidth), style.font)>>, d.result),
        <<"-", "-", "-">>)))

\* _render_image
RenderImage(st, node) ==
    Let(S_ImageOpen \o Or(node.alt, Or(node.title, Or(node.url, S_Image))) \o <<"]">>,
        LAMBDA placeholder :
    Let(Derive(GetStyle(st.styles, "body").font, ImageOverrides), LAMBDA d :
    Let([st EXCEPT !.styles = PutFont(@, "body", d.self)], LAMBDA st1 :
    OneWithPreview(
        MakeParagraph(st1, <<Run(placeholder, d.result)>>,
                      GetStyle(st1.styles, "body").para),
        placeholder))))

\* the runs of _render_link: the collected runs c.runs, then the " (url)" run
\* in the font url_font when there is a url; one run of the url when none
LinkRuns(node, c, url_font) ==
    Let(IF node.url # << >>
        THEN Append(c.runs, Run(<<" ", "(">> \o node.url \o <<")">>, url_font))
        ELSE c.runs, LAMBDA runs :
    IF runs = << >> THEN <<Run(node.url, c.base)>> ELSE runs)

\* _render_link
RenderLink(st, node) ==
    Let(Derive(GetStyle(st.styles, "body").font, LinkOverrides), LAMBDA d :
    Let([st EXCEPT !.styles = PutFont(@, "body", d.self)], LAMBDA st1 :
    Let(CollectInlineRuns(node, d.result, st1.styles), LAMBDA c :
    Let(Derive(GetStyle(st1.styles, "body").font,
               [color |-> "#666666", size_pt |-> 80]), LAMBDA u :
    Let(IF node.url # << >>
        THEN [st1 EXCEPT !.styles = PutFont(@, "body", u.self)] ELSE st1, LAMBDA st2 :
    One(MakeParagraph(st2, LinkRuns(node, c, u.result),
                      GetStyle(st2.styles, "body").para)))))))

\* _render_footnote_ref
RenderFootnoteRef(st, node) ==
    Let(Derive(GetStyle(st.styles, "body").font, FootnoteRefOverrides), LAMBDA d :
    Let([st EXCEPT !.styles = PutFont(@, "body", d.self)], LAMBDA st1 :
    One(MakeParagraph(st1, <<Run(<<"[">> \o node.footnote_id \o <<"]">>, d.result)>>,
                      GetStyle(st1.styles, "body").para))))

\* the runs of one child of a footnote definition: the first child's first run
\* carries the prefix, or the prefix stands alone when it has no run
FootnoteRuns(runs, idx, prefix, font) ==
    IF idx = 0 /\ runs # << >>
    THEN <<Run(prefix \o runs[1].text, runs[1].font)>> \o Tail(runs)
    ELSE IF idx = 0 THEN <<Run(prefix, font)>> ELSE runs

RECURSIVE FootnoteChildren(_, _, _, _)
\* the loop of _render_footnote_def over enumerate(node.children), from idx on
FootnoteChildren(st, children, idx, prefix) ==
    IF children = << >> THEN Out(st, << >>)
    ELSE Let(CollectInlineRuns(Head(children), GetStyle(st.styles, "footnote").font,
                               st.styles), LAMBDA c :
         Let([st EXCEPT !.styles = PutFont(@, "footnote", c.base)], LAMBDA st1 :
         Let(ParagraphIf(st1, FootnoteRuns(c.runs, idx, prefix,
                                           GetStyle(st1.styles, "footnote").font),
                         GetStyle(st1.styles, "footnote").para), LAMBDA one :
         Let(FootnoteChildren(one.st, Tail(children), idx + 1, prefix), LAMBDA rest :
         Out(rest.st, one.els \o rest.els)))))

\* _render_footnote_def
RenderFootnoteDef(st, node) ==
    Let(<<"[">> \o node.footnote_id \o <<"]", " ">>, LAMBDA prefix :
    Let(FootnoteChildren(st, node.children, 0, prefix), LAMBDA body :
    Let(IF body.els = << >>
        THEN ParagraphIf(body.st,
                         <<Run(prefix, GetStyle(body.st.styles, "footnote").font)>>,
                         GetStyle(body.st.styles, "footnote").para)
        ELSE body, LAMBDA all :
    Out(AddPreview(all.st, <<" ", " ", "[">> \o node.footnote_id \o <<"]", " ">>
                           \o Take(Strip(ExtractPlainText(node)), 80)),
        all.els))))

-----------------------------------------------------------------------------
(* renderer.py : _render_table *)

A4Width == 59528
MarginLeft == 8504
MarginRight == 8504
DefaultRowHeight == 2886
TableIdOffset == 1000

\* page_content_width = _A4_WIDTH - _MARGIN_LEFT - _MARGIN_RIGHT
PageContentWidth == A4Width - MarginLeft - MarginRight

\* an hp:tc element: its subList paragraph, cellAddr, cellSz
CellEl(header, para, col_idx, row_idx, width) ==
    [header |-> header, para |-> para, colAddr |-> col_idx, rowAddr |-> row_idx,
     width |-> width, height |-> DefaultRowHeight, colSpan |-> 1, rowSpan |-> 1]

\* the paragraph of one table cell, cell_para being the paragraph spec the code
\* chose for it: the cell's runs, or one blank run when it has none
CellParagraph(st, cell_node, name, cell_para) ==
    Let(CollectInlineRuns(cell_node, GetStyle(st.styles, name).font, st.styles),
        LAMBDA c :
    Let([st EXCEPT !.styles = PutFont(@, name, c.base)], LAMBDA st2 :
    MakeParagraph(st2,
                  IF c.runs = << >>
                  THEN <<Run(<<" ">>, GetStyle(st2.styles, name).font)>>
                  ELSE c.runs,
                  cell_para)))

\* one pass of the inner loop of _render_table: [st, el] of the cell's paragraph
TableCell(st, cell_node, name) ==
    IF cell_node.align # ""
    THEN Let(Derive(GetStyle(st.styles, name).para, [align |-> cell_node.align]),
             LAMBDA d :
         CellParagraph([st EXCEPT !.styles = PutPara(@, name, d.self)],
                       cell_node, name, d.result))
    ELSE CellParagraph(st, cell_node, name, GetStyle(st.styles, name).para)

RECURSIVE TableCells(_, _, _, _, _)
\* the inner loop of _render_table over enumerate(row_node.children), from col_idx on
TableCells(st, cells, row_idx, col_idx, col_width) ==
    IF cells = << >> THEN Out(st, << >>)
    ELSE Let(TableCell(st, Head(cells),
                       IF Head(cells).is_header THEN "table_header" ELSE "table_body"),
             LAMBDA mp :
         Let(TableCells(mp.st, Tail(cells), row_idx, col_idx + 1, col_width),
             LAMBDA rest :
         Out(rest.st,
             <<CellEl(Head(cells).is_header, mp.el, col_idx, row_idx, col_width)>>
             \o rest.els)))

RECURSIVE TableRowsSkipEmpty(_, _, _, _)
\* A row loop that leaves out the rows that have no cell.
TableRowsSkipEmpty(st, rows, row_idx, col_width) ==
    IF rows = << >> THEN Out(st, << >>)
    ELSE IF Head(rows).children = << >>
    THEN TableRowsSkipEmpty(st, Tail(rows), row_idx + 1, col_width)
    ELSE Let(TableCells(st, Head(rows).children, row_idx, 0, col_width), LAMBDA tr :
         Let(TableRowsSkipEmpty(tr.st, Tail(rows), row_idx + 1, col_width),
             LAMBDA rest :
         Out(rest.st, <<tr.els>> \o rest.els)))

RECURSIVE TableRows(_, _, _, _)
\* the outer loop of _render_table over enumerate(node.children), from row_idx on:
\* els holds one hp:tr (a sequence of hp:tc) per row
TableRows(st, rows, row_idx, col_width) ==
    IF rows = << >> THEN Out(st, << >>)
    ELSE Let(TableCells(st, Head(rows).children, row_idx, 0, col_width), LAMBDA tr :
         Let(TableRows(tr.st, Tail(rows), row_idx + 1, col_width), LAMBDA rest :
         Out(rest.st, <<tr.els>> \o rest.els)))

S_Table == <<"[", "T", "a", "b", "l", "e", "]">>

\* num_cols of _render_table
TableNumCols(node) ==
    IF node.children[1].children # << >> THEN Len(node.children[1].children) ELSE 1

\* the hp:tbl element
TableEl(tbl_id, num_rows, num_cols, rows) ==
    [id |-> tbl_id, rowCnt |-> num_rows, colCnt |-> num_cols,
     width |-> PageContentWidth, height |-> DefaultRowHeight * num_rows,
     rows |-> rows]

\* A table renderer that gives nothing for a table whose first row has no
\* cells.
RenderTableNeedsCells(st, node) ==
    IF node.children = << >> \/ node.children[1].children = << >>
    THEN Out(st, << >>)
    ELSE Let(TableRows(st, node.children, 0, PageContentWidth \div TableNumCols(node)),
             LAMBDA rows :
         Let(RegisterPara(rows.st.registry, GetStyle(rows.st.styles, "body").para),
             LAMBDA wp :
         Let(RegisterChar(wp.reg, GetStyle(rows.st.styles, "body").font), LAMBDA wc :
         Out(AddPreview([rows.st EXCEPT !.para_id = rows.st.para_id + 1,
                                        !.registry = wc.reg], S_Table),
             <<ParaEl(rows.st.para_id + 1, wp.id,
                      <<RunEl(wc.id, <<" ">>, "tbl",
                              <<TableEl(st.para_id + TableIdOffset, Len(node.children),
                                        TableNumCols(node), rows.els)>>)>>)>>))))

\* A table renderer that appends a preview line for every row.
RenderTablePreviewPerRow(st, node) ==
    IF node.children = << >> THEN Out(st, << >>)
    ELSE Let(TableRows(st, node.children, 0, PageContentWidth \div TableNumCols(node)),
             LAMBDA rows :
         Let(RegisterPara(rows.st.registry, GetStyle(rows.st.styles, "body").para),
             LAMBDA wp :
         Let(RegisterChar(wp.reg, GetStyle(rows.st.styles, "body").font), LAMBDA wc :
         Out([rows.st EXCEPT !.para_id = rows.st.para_id + 1, !.registry = wc.reg,
                             !.preview_lines =
                                 @ \o [k \in 1..Len(node.children) |-> S_Table]],
             <<ParaEl(rows.st.para_id + 1, wp.id,
                      <<RunEl(wc.id, <<" ">>, "tbl",
                              <<TableEl(st.para_id + TableIdOffset, Len(node.children),
                                        TableNumCols(node), rows.els)>>)>>)>>))))

\* _render_table
RenderTable(st, node) ==
    IF node.children = << >> THEN Out(st, << >>)
    ELSE Let(TableRows(st, node.children, 0, PageContentWidth \div TableNumCols(node)),
             LAMBDA rows :
         Let(RegisterPara(rows.st.registry, GetStyle(rows.st.styles, "body").para),
             LAMBDA wp :
         Let(RegisterChar(wp.reg, GetStyle(rows.st.styles, "body").font), LAMBDA wc :
         Out(AddPreview([rows.st EXCEPT !.para_id = rows.st.para_id + 1,
                                        !.registry = wc.reg], S_Table),
             <<ParaEl(rows.st.para_id + 1, wp.id,
                      <<RunEl(wc.id, <<" ">>, "tbl",
                              <<TableEl(st.para_id + TableIdOffset, Len(node.children),
                                        TableNumCols(node), rows.els)>>)>>)>>))))

-----------------------------------------------------------------------------
(* renderer.py : dispatch, and the renderers that dispatch further *)

ListIndentPerDepth == 200

\* the prefix of _render_single_list_item
ListPrefix(node, ordered, counter, depth) ==
    IF node.type = "task_list_item"
    THEN <<(IF node.checked THEN CheckedBox ELSE UncheckedBox), " ">>
    ELSE IF ordered THEN IntStr(counter) \o <<".", " ">>
         ELSE <<Bullets[(depth % Len(Bullets)) + 1], " ">>

RECURSIVE RenderNode(_, _)
RECURSIVE RenderNodes(_, _)
RECURSIVE BlockquoteChildren(_, _)
RECURSIVE RenderListItems(_, _, _, _, _)
RECURSIVE RenderSingleListItem(_, _, _, _, _)
RECURSIVE ListItemChildren(_, _, _, _)

\* for child in children: elements.extend(self._render_node(child))
\* (the loop of render over doc.children and of _render_document)
\* The children are walked left to right, the first half before the second.
RenderNodes(st, children) ==
    IF children = << >> THEN Out(st, << >>)
    ELSE IF Len(children) = 1 THEN RenderNode(st, children[1])
    ELSE Let(RenderNodes(st, SubSeq(children, 1, Len(children) \div 2)),
             LAMBDA first :
         Let(RenderNodes(first.st, SubSeq(children, Len(children) \div 2 + 1,
                                          Len(children))), LAMBDA second :
         Out(second.st, first.els \o second.els)))

\* a paragraph child of a blockquote: its runs in the blockquote style
BlockquoteParagraph(st, child) ==
    Let(CollectInlineRuns(child, GetStyle(st.styles, "blockquote").font, st.styles),
        LAMBDA c :
    Let([st EXCEPT !.styles = PutFont(@, "blockquote", c.base)], LAMBDA st1 :
    ParagraphIf(st1, c.runs, GetStyle(st1.styles, "blockquote").para)))

\* the loop of _render_blockquote over node.children
BlockquoteChildren(st, children) ==
    IF children = << >> THEN Out(st, << >>)
    ELSE Let(IF Head(children).type = "paragraph"
             THEN BlockquoteParagraph(st, Head(children))
             ELSE RenderNode(st, Head(children)), LAMBDA one :
         Let(BlockquoteChildren(one.st, Tail(children)), LAMBDA rest :
         Out(rest.st, one.els \o rest.els)))

\* _render_blockquote
RenderBlockquote(st, node) ==
    Let(BlockquoteChildren(st, node.children), LAMBDA body :
    Let(Strip(ExtractPlainText(node)), LAMBDA text :
    Out(IF text # << >>
        THEN AddPreview(body.st, <<">", " ">> \o Take(text, 120))
        ELSE body.st,
        body.els)))

RECURSIVE RenderListItemsNoAdvance(_, _, _, _, _)
\* A list loop whose counter stays where it started.
RenderListItemsNoAdvance(st, items, ordered, counter, depth) ==
    IF items = << >> THEN Out(st, << >>)
    ELSE Let(RenderSingleListItem(st, Head(items), ordered, counter, depth),
             LAMBDA one :
         Let(RenderListItemsNoAdvance(one.st, Tail(items), ordered, counter, depth),
             LAMBDA rest :
         Out(rest.st, one.els \o rest.els)))

\* the loop shared by _render_list_block (depth 0) and _render_nested_list:
\* one _render_single_list_item per child, the counter advancing when ordered
RenderListItems(st, items, ordered, counter, depth) ==
    IF items = << >> THEN Out(st, << >>)
    ELSE Let(RenderSingleListItem(st, Head(items), ordered, counter, depth),
             LAMBDA one :
         Let(RenderListItems(one.st, Tail(items), ordered,
                             IF ordered THEN counter + 1 ELSE counter, depth),
             LAMBDA rest :
         Out(rest.st, one.els \o rest.els)))

\* _render_list_block
RenderListBlock(st, node, ordered) ==
    RenderListItems(st, node.children, ordered,
                    IF ordered THEN node.start ELSE 0, 0)

\* A nested list rendered at the depth of the item that holds it.
RenderNestedListSameDepth(st, node, depth) ==
    RenderListItems(st, node.children, node.type = "ordered_list",
                    IF node.type = "ordered_list" THEN node.start ELSE 0, depth - 1)

\* _render_nested_list
RenderNestedList(st, node, depth) ==
    RenderListItems(st, node.children, node.type = "ordered_list",
                    IF node.type = "ordered_list" THEN node.start ELSE 0, depth)

\* the loop of _render_single_list_item over node.children:
\* [st, runs: inline_runs, els: nested_elements]
ListItemChildren(st, children, depth, acc) ==
    IF children = << >> THEN [els |-> << >>, runs |-> acc, st |-> st]
    ELSE IF Head(children).type \in {"paragraph", "text"}
    THEN Let(CollectInlineRuns(Head(children), GetStyle(st.styles, "list_item").font,
                               st.styles), LAMBDA c :
         ListItemChildren([st EXCEPT !.styles = PutFont(@, "list_item", c.base)],
                          Tail(children), depth, acc \o c.runs))
    ELSE Let(IF Head(children).type \in {"ordered_list", "unordered_list"}
             THEN RenderNestedList(st, Head(children), depth + 1)
             ELSE RenderNode(st, Head(children)), LAMBDA one :
         Let(ListItemChildren(one.st, Tail(children), depth, acc), LAMBDA rest :
         [els |-> one.els \o rest.els, runs |-> rest.runs, st |-> rest.st]))

\* inline_runs of _render_single_list_item: the prefix joins the first run, or
\* stands alone, stripped on the right, when there is no run
ListItemRuns(runs, prefix, font) ==
    IF runs # << >>
    THEN <<Run(prefix \o runs[1].text, runs[1].font)>> \o Tail(runs)
    ELSE <<Run(RStrip(prefix), font)>>

\* An item renderer that returns the fragments of the item's nested children
\* before the item's own paragraph.
RenderSingleListItemNestedFirst(st, node, ordered, counter, depth) ==
    Let(ListPrefix(node, ordered, counter, depth), LAMBDA prefix :
    Let(Derive(GetStyle(st.styles, "list_item").para,
               [left_margin_pt |-> GetStyle(st.styles, "list_item").para.left_margin_pt
                                   + depth * ListIndentPerDepth]), LAMBDA d :
    Let(ListItemChildren([st EXCEPT !.styles = PutPara(@, "list_item", d.self)],
                         node.children, depth, << >>), LAMBDA kids :
    Let(MakeParagraph(kids.st,
                      ListItemRuns(kids.runs, prefix,
                                   GetStyle(kids.st.styles, "list_item").font),
                      d.result), LAMBDA mp :
    Out(AddPreview(mp.st, <<" ", " ">> \o Repeat(" ", 2 * depth) \o prefix
                          \o Take(Strip(ExtractPlainText(node)), 80)),
        kids.els \o <<mp.el>>)))))

\* _render_single_list_item (style is always the list_item style)
RenderSingleListItem(st, node, ordered, counter, depth) ==
    Let(ListPrefix(node, ordered, counter, depth), LAMBDA prefix :
    Let(Derive(GetStyle(st.styles, "list_item").para,
               [left_margin_pt |-> GetStyle(st.styles, "list_item").para.left_margin_pt
                                   + depth * ListIndentPerDepth]), LAMBDA d :
    Let(ListItemChildren([st EXCEPT !.styles = PutPara(@, "list_item", d.self)],
                         node.children, depth, << >>), LAMBDA kids :
    Let(MakeParagraph(kids.st,
                      ListItemRuns(kids.runs, prefix,
                                   GetStyle(kids.st.styles, "list_item").font),
                      d.result), LAMBDA mp :
    Out(AddPreview(mp.st, <<" ", " ">> \o Repeat(" ", 2 * depth) \o prefix
                          \o Take(Strip(ExtractPlainText(node)), 80)),
        <<mp.el>> \o kids.els)))))

\* _render_node: getattr(self, "_render_" + node.type.value) and the handler
RenderNode(st, node) ==
    LET nt == node.type
    IN  CASE nt = "heading" -> RenderHeading(st, node)
          [] nt = "paragraph" -> RenderParagraph(st, node)
          [] nt = "text" -> RenderText(st, node)
          [] nt = "bold" -> RenderEmphasis(st, node, [bold |-> TRUE])
          [] nt = "italic" -> RenderEmphasis(st, node, [italic |-> TRUE])
          [] nt = "strikethrough" -> RenderEmphasis(st, node, [strikethrough |-> TRUE])
          [] nt = "inline_code" -> RenderInlineCode(st, node)
          [] nt = "code_block" -> RenderCodeBlock(st, node)
          [] nt = "blockquote" -> RenderBlockquote(st, node)
          [] nt = "horizontal_rule" -> RenderHorizontalRule(st, node)
          [] nt = "ordered_list" -> RenderListBlock(st, node, TRUE)
          [] nt = "unordered_list" -> RenderListBlock(st, node, FALSE)
          [] nt \in {"list_item", "task_list_item"} ->
                RenderSingleListItem(st, node, FALSE, 0, 0)
          [] nt = "table" -> RenderTable(st, node)
          [] nt = "image" -> RenderImage(st, node)
          [] nt = "link" -> RenderLink(st, node)
          [] nt = "footnote_ref" -> RenderFootnoteRef(st, node)
          [] nt = "footnote_def" -> RenderFootnoteDef(st, node)
          [] nt = "document" -> RenderNodes(st, node.children)
          [] nt \in {"table_row", "table_cell", "line_break", "soft_break"} ->
                Out(st, << >>)
          [] OTHER -> Out(st, << >>)

-----------------------------------------------------------------------------
(* renderer.py : header.xml, section0.xml and the ZIP package *)

\* _ALIGN_MAP.get(align, "JUSTIFY")
AlignMap(align) ==
    CASE align = "left" -> "LEFT"
      [] align = "center" -> "CENTER"
      [] align = "right" -> "RIGHT"
      [] OTHER -> "JUSTIFY"

\* int(pt * 100) of a measurement held in tenths of a point
Hwp(tenths) == tenths * 10

FontLangs == <<"HANGUL", "LATIN", "HANJA", "JAPANESE", "OTHER", "SYMBOL", "USER">>

\* one hh:charPr of _build_header_xml
CharPrEl(r, idx, font) ==
    LET h_idx == FontIdx(r, font.hangul)
        l_idx == FontIdx(r, font.latin)
    IN  [id |-> idx, height |-> Hwp(font.size_pt),
         textColor |-> ColorToHex(font.color),
         shadeColor |-> IF font.background # "" THEN ColorToHex(font.background)
                        ELSE "none",
         fontRef |-> [hangul |-> h_idx, latin |-> l_idx, hanja |-> h_idx,
                      japanese |-> h_idx, other |-> l_idx, symbol |-> l_idx,
                      user |-> l_idx],
         bold |-> font.bold, italic |-> font.italic,
         underline |-> IF font.underline THEN "BOTTOM" ELSE "NONE",
         strikeout |-> IF font.strikethrough THEN "SINGLE" ELSE "NONE"]

\* one hh:paraPr of _build_header_xml
ParaPrEl(idx, para) ==
    [id |-> idx, align |-> AlignMap(para.align),
     intent |-> Hwp(para.indent_pt), left |-> Hwp(para.left_margin_pt),
     right |-> Hwp(para.right_margin_pt), prev |-> Hwp(para.space_before_pt),
     next |-> Hwp(para.space_after_pt), lineSpacing |-> para.line_spacing_percent]

\* _build_header_xml: the font faces (the same list under each of the seven
\* languages), the charPr and paraPr lists and the one fixed style
BuildHeaderXml(st) ==
    LET r     == st.registry
        body  == GetStyle(st.styles, "body")
        fonts == IF r.fonts = << >> THEN <<"MalgunGothic">> ELSE r.fonts
        chars == IF r.char_list = << >> THEN <<body.font>> ELSE r.char_list
        paras == IF r.para_list = << >> THEN <<body.para>> ELSE r.para_list
    IN  [fontfaces |->
            [l \in 1..Len(FontLangs) |->
                [lang |-> FontLangs[l],
                 fonts |-> [i \in 1..Len(fonts) |-> [id |-> i - 1, face |-> fonts[i]]]]],
         charProperties |-> [i \in 1..Len(chars) |-> CharPrEl(r, i - 1, chars[i])],
         paraProperties |-> [i \in 1..Len(paras) |-> ParaPrEl(i - 1, paras[i])],
         styles |-> <<[id |-> 0, paraPrIDRef |-> 0, charPrIDRef |-> 0]>>]

\* A section builder without the blank paragraph of an empty body.
BuildSectionXmlNoFallback(st, body_elements) ==
    LET body == GetStyle(st.styles, "body") IN
    Let(RegisterChar(st.registry, body.font), LAMBDA c :
    Let(RegisterPara(c.reg, body.para), LAMBDA p :
    [st  |-> [st EXCEPT !.para_id = st.para_id + 1, !.registry = p.reg],
     xml |-> <<ParaEl(st.para_id + 1, p.id,
                      <<RunEl(c.id, << >>, "secPr", << >>),
                        RunEl(c.id, << >>, "none", << >>)>>)>>
             \o body_elements]))

\* _build_section_xml: [st, xml], xml being the hp:p elements of the section:
\* the secPr paragraph, then the body elements or the one blank paragraph
BuildSectionXml(st, body_elements) ==
    LET body == GetStyle(st.styles, "body") IN
    Let(RegisterChar(st.registry, body.font), LAMBDA c :
    Let(RegisterPara(c.reg, body.para), LAMBDA p :
    Let(ParaEl(st.para_id + 1, p.id,
               <<RunEl(c.id, << >>, "secPr", << >>),
                 RunEl(c.id, << >>, "none", << >>)>>), LAMBDA first :
    IF body_elements # << >>
    THEN [st  |-> [st EXCEPT !.para_id = st.para_id + 1, !.registry = p.reg],
          xml |-> <<first>> \o body_elements]
    ELSE Let(RegisterPara(p.reg, body.para), LAMBDA pp :
         Let(RegisterChar(pp.reg, body.font), LAMBDA cp :
         [st  |-> [st EXCEPT !.para_id = st.para_id + 2, !.registry = cp.reg],
          xml |-> <<first,
                    ParaEl(st.para_id + 2, pp.id,
                           <<RunEl(cp.id, <<" ">>, "none", << >>)>>)>>])))))

\* str.encode("utf-8"): one byte for an ASCII character, three for the others
Utf8(s) ==
    Concat([i \in 1..Len(s) |->
               IF s[i] \in {BoxLine, CheckedBox, UncheckedBox}
                           \cup {Bullets[k] : k \in 1..Len(Bullets)}
               THEN <<<<s[i], 1>>, <<s[i], 2>>, <<s[i], 3>>>>
               ELSE <<<<s[i], 1>>>>])

PreviewLimit == 50

\* the date_time of zipfile.ZipInfo(name) when none is given: 1980-01-01 00:00:00
ZipInfoDefaultDateTime == 0

\* one member of the ZIP: zf.writestr(zinfo_or_arcname, data, compress_type)
ZipEntry(name, data, compress_type, date_time) ==
    [name |-> name, data |-> data, compress_type |-> compress_type,
     date_time |-> date_time]

\* zf.writestr(arcname, data) with arcname a str: ZipInfo(arcname,
\* date_time=time.localtime(time.time())[:6]) and the archive's compression
WriteStr(name, data, clock) == ZipEntry(name, data, "ZIP_DEFLATED", clock)

\* A mimetype member written like the others: by name, with the archive's
\* compression.
MimetypeEntryDeflated(clock) == WriteStr("mimetype", "application/hwp+zip", clock)

\* zf.writestr(zipfile.ZipInfo("mimetype"), "application/hwp+zip",
\*             compress_type=zipfile.ZIP_STORED)
MimetypeEntry(clock) ==
    ZipEntry("mimetype", "application/hwp+zip", "ZIP_STORED", ZipInfoDefaultDateTime)

\* A packager that writes the style dictionary after the content part.
WriteOrderHeaderLast ==
    <<"mimetype", "version.xml", "META-INF/container.xml", "META-INF/manifest.xml",
      "META-INF/container.rdf", "settings.xml", "Contents/content.hpf",
      "Contents/section0.xml", "Contents/header.xml", "Preview/PrvText.txt">>

\* the writestr calls of _package_hwpx, in the order they are made
WriteOrder ==
    <<"mimetype", "version.xml", "META-INF/container.xml", "META-INF/manifest.xml",
      "META-INF/container.rdf", "settings.xml", "Contents/content.hpf",
      "Contents/header.xml", "Contents/section0.xml", "Preview/PrvText.txt">>

\* what _package_hwpx writes under each name after the mimetype, header and
\* section being what _build_header_xml and _build_section_xml returned
PartContent(name, header, section) ==
    CASE name = "version.xml" -> "<hv:HCFVersion/>"
      [] name = "META-INF/container.xml" -> "<ocf:container/>"
      [] name = "META-INF/manifest.xml" -> "<odf:manifest/>"
      [] name = "META-INF/container.rdf" -> "<rdf:RDF/>"
      [] name = "settings.xml" -> "<ha:HWPApplicationSetting/>"
      [] name = "Contents/content.hpf" -> "<opf:package/>"
      [] name = "Contents/header.xml" -> header
      [] name = "Contents/section0.xml" -> section.xml
      [] name = "Preview/PrvText.txt" ->
            Utf8(JoinLines(Take(section.st.preview_lines, PreviewLimit)))

\* _package_hwpx: [st, data], data being the members of the archive in the
\* order written. clock is what time.time() returns during the call. The
\* header is serialized before the section is built, whatever the write order.
PackageHwpx(st, body_elements, clock) ==
    Let(BuildHeaderXml(st), LAMBDA header :
    Let(BuildSectionXml(st, body_elements), LAMBDA section :
    [st |-> section.st,
     data |-> [i \in 1..Len(WriteOrder) |->
                  IF WriteOrder[i] = "mimetype" THEN MimetypeEntry(clock)
                  ELSE WriteStr(WriteOrder[i],
                                PartContent(WriteOrder[i], header, section),
                                clock)]]))

\* HwpxRenderer.__init__, without self.style
NewRenderer == [para_id |-> 0, preview_lines |-> << >>, registry |-> NewRegistry]

\* A render() that keeps counting paragraph ids from the previous call.
RenderStartKeepCounter(self) ==
    [self EXCEPT !.preview_lines = << >>, !.registry = NewRegistry]

\* the resets at the start of render()
RenderStart(self) ==
    [self EXCEPT !.para_id = 0, !.preview_lines = << >>, !.registry = NewRegistry]

\* A render() that registers nothing before it walks the tree.
RenderFirstIdsNone(st) == st

\* render(): the body style registered first, so that it gets the ids 0
RenderFirstIds(st) ==
    Let(RegisterChar(st.registry, GetStyle(st.styles, "body").font), LAMBDA c :
    [st EXCEPT !.registry = RegisterPara(c.reg, GetStyle(st.styles, "body").para).reg])

\* the renderer self with the style table sty of its style manager
WithStyles(self, sty) ==
    [para_id |-> self.para_id, preview_lines |-> self.preview_lines,
     registry |-> self.registry, styles |-> sty]

\* HwpxRenderer.render(doc) for a DOCUMENT node, on the renderer self whose
\* style manager holds sty: [st: the renderer and style table afterwards,
\* data: the bytes returned]
Render(self, sty, doc, clock) ==
    Let(RenderNodes(RenderFirstIds(WithStyles(RenderStart(self), sty)), doc.children),
        LAMBDA body :
    PackageHwpx(body.st, body.els, clock))

-----------------------------------------------------------------------------
(* The document trees render() is called with *)

T(s) == [Node("text") EXCEPT !.text = s]
N(type, children) == [Node(type) EXCEPT !.children = children]
Doc(children) == N("document", children)
P(children) == N("paragraph", children)
H(level, children) == [Node("heading") EXCEPT !.level = level, !.children = children]
Cell(children, is_header, align) ==
    [Node("table_cell") EXCEPT !.children = children, !.is_header = is_header,
                               !.align = align]

S_a == <<"a">>
S_ab == <<" ", "a", "\n", "b", " ">>
S_url == <<"h", ":", "/">>

DocHeadingOnly == Doc(<<H(2, <<T(S_a)>>)>>)

BlocksInline ==
    <<P(<<T(S_a), N("bold", <<T(S_ab), N("italic", <<T(S_a)>>)>>),
          N("strikethrough", <<T(S_a)>>),
          [Node("inline_code") EXCEPT !.text = S_a],
          Node("line_break"), Node("soft_break"),
          [Node("link") EXCEPT !.url = S_url, !.children = <<T(S_a)>>],
          [Node("image") EXCEPT !.url = S_url],
          [Node("image") EXCEPT !.title = S_a],
          [Node("footnote_ref") EXCEPT !.footnote_id = <<"1">>]>>),
      P(<<T(S_a)>>)>>

BlocksHeadings ==
    <<H(0, << >>), H(1, <<T(S_a)>>), H(7, <<T(S_ab)>>), P(<< >>),
      P(<<T(<<" ">>)>>), Node("horizontal_rule")>>

BlocksCode ==
    <<[Node("code_block") EXCEPT !.text = <<"a", "\n", "\n", "b", "\n">>,
                                 !.language = <<"p", "y">>],
      [Node("code_block") EXCEPT !.text = << >>],
      P(<<T(S_a)>>)>>

BlocksQuote ==
    <<N("blockquote",
        <<P(<<T(S_a)>>), P(<< >>),
          N("unordered_list", <<N("list_item", <<P(<<T(S_a)>>)>>)>>)>>)>>

BlocksLists ==
    <<[Node("ordered_list") EXCEPT !.start = 3, !.children =
         <<N("list_item",
             <<P(<<T(S_a)>>),
               N("unordered_list",
                 <<N("list_item",
                     <<T(S_a),
                       N("ordered_list", <<N("list_item", <<P(<<T(S_a)>>)>>)>>)>>)>>)>>),
           N("list_item", << >>),
           [Node("task_list_item") EXCEPT !.checked = TRUE,
                                          !.children = <<P(<<T(S_a)>>)>>],
           Node("task_list_item")>>],
      N("unordered_list", <<N("list_item", <<N("bold", <<T(S_a)>>)>>)>>)>>

BlocksTable ==
    <<P(<<T(S_a)>>),
      N("table",
        <<N("table_row", <<Cell(<<T(S_a)>>, TRUE, ""), Cell(<< >>, TRUE, "center")>>),
          N("table_row", <<Cell(<<N("bold", <<T(S_a)>>)>>, FALSE, "right")>>)>>),
      N("table", << >>),
      N("table", <<N("table_row", << >>), N("table_row", <<Cell(<<T(S_a)>>, FALSE, "")>>)>>),
      P(<<T(S_a)>>)>>

BlocksBlockInlines ==
    <<T(S_a), N("bold", <<T(S_a)>>), N("italic", << >>),
      N("strikethrough", <<T(S_a)>>), [Node("inline_code") EXCEPT !.text = S_a],
      [Node("link") EXCEPT !.url = S_url, !.children = <<T(S_a)>>],
      [Node("link") EXCEPT !.children = <<T(S_a)>>],
      Node("link"),
      [Node("image") EXCEPT !.alt = S_a, !.url = S_url],
      [Node("image") EXCEPT !.url = S_url],
      Node("image"),
      [Node("footnote_ref") EXCEPT !.footnote_id = <<"1">>]>>

BlocksFootnotes ==
    <<P(<<T(S_a), [Node("footnote_ref") EXCEPT !.footnote_id = <<"1">>]>>),
      [Node("footnote_def") EXCEPT !.footnote_id = <<"1">>,
                                   !.children = <<P(<<T(S_a)>>), P(<<T(S_a)>>)>>],
      [Node("footnote_def") EXCEPT !.footnote_id = <<"2">>]>>

BlocksStray ==
    <<Doc(<<P(<<T(S_a)>>)>>), N("list_item", <<P(<<T(S_a)>>)>>),
      Node("task_list_item"), N("table_row", <<Cell(<<T(S_a)>>, FALSE, "")>>),
      Cell(<<T(S_a)>>, FALSE, ""), Node("line_break"), Node("soft_break"),
      Node("unknown")>>

DocEmpty == Doc(<< >>)
DocText == Doc(BlocksInline \o BlocksHeadings \o BlocksCode)
DocLists == Doc(BlocksQuote \o BlocksLists \o BlocksFootnotes)
DocTables == Doc(BlocksTable \o BlocksBlockInlines \o BlocksStray)

Docs == {DocEmpty, DocHeadingOnly, DocText, DocLists, DocTables}

-----------------------------------------------------------------------------
(* The renderers *)

Renderers == {1, 2}

\* the member of an archive with the given name (there is exactly one)
Part(a, name) == a[CHOOSE i \in 1..Len(a) : a[i].name = name]

\* HwpxRenderer.render(doc) on renderer r, the clock reading now
RenderCall(r, doc) ==
    /\ doc.type = "document"
    /\ \E res \in {Render(rnd[r], styles[r], doc, now)} :
           /\ rnd' = [rnd EXCEPT ![r] = [para_id |-> res.st.para_id,
                                         preview_lines |-> res.st.preview_lines,
                                         registry |-> res.st.registry]]
           /\ styles' = [styles EXCEPT ![r] = res.st.styles]
           /\ archive' = [archive EXCEPT ![r] = res.data]
    /\ lastDoc' = [lastDoc EXCEPT ![r] = doc]
    /\ uses' = [uses EXCEPT ![r] = IF @ = "new" THEN "once" ELSE "reused"]
    /\ UNCHANGED <<regVars, now, tree, preset, appVars>>

\* time passes
Tick ==
    /\ now < MaxClock
    /\ now' = now + 1
    /\ UNCHANGED <<regVars, styles, rnd, archive, lastDoc, uses, tree, preset, appVars>>

\* HwpxRenderer(StyleManager("default")) twice
Init ==
    /\ reg = NewRegistry
    /\ regLog = << >>
    /\ styles = [r \in Renderers |-> BuildDefaultStyles]
    /\ rnd = [r \in Renderers |-> NewRenderer]
    /\ archive = [r \in Renderers |-> << >>]
    /\ lastDoc = [r \in Renderers |-> Doc(<< >>)]
    /\ uses = [r \in Renderers |-> "new"]
    /\ now = 1
    /\ tree = Doc(<< >>)
    /\ preset = [r \in Renderers |-> "default"]
    /\ fs = << >>
    /\ outcome = << >>
    /\ req = << >>

Next ==
    \/ \E r \in Renderers, doc \in Docs : RenderCall(r, doc)
    \/ Tick

Spec == Init /\ [][Next]_vars

-----------------------------------------------------------------------------
(* Properties of the registry and the header (specification SpecReg) *)

\* C4: after any sequence of registrations, both font names of every
\* registered character style are in fonts(), so the fontRef indices the
\* header builder writes for the style are the indices of exactly those names
\* (font_idx never falls back to 0 for a missing name); and a register_char
\* call with a style registered before, and every register_para call, leaves
\* the font list as it was.
C4_FontNamesRegistered ==
    /\ \A i \in 1..Len(reg.char_list) :
          LET font == reg.char_list[i]
              el   == CharPrEl(reg, i - 1, font)
          IN  /\ font.hangul \in DOMAIN reg.font_idx
              /\ font.latin \in DOMAIN reg.font_idx
              /\ el.fontRef.hangul \in 0..(Len(reg.fonts) - 1)
              /\ el.fontRef.latin \in 0..(Len(reg.fonts) - 1)
              /\ reg.fonts[el.fontRef.hangul + 1] = font.hangul
              /\ reg.fonts[el.fontRef.latin + 1] = font.latin
    /\ \A j \in LogIdx :
          (\/ regLog[j].op = "para"
           \/ /\ regLog[j].op = "char"
              /\ \E i \in LogIdx :
                    i < j /\ regLog[i].op = "char" /\ regLog[i].arg = regLog[j].arg)
          => regLog[j].fonts = FontsBefore(j)

\* a style whose second font name is not at index 0 was registered twice, and
\* a paragraph style was registered after it
C4_Witness ==
    \E i \in LogIdx : \E j \in LogIdx : \E k \in LogIdx :
        /\ i < j /\ j < k
        /\ regLog[i].op = "char" /\ regLog[j].op = "char" /\ regLog[k].op = "para"
        /\ regLog[i].arg = regLog[j].arg
        /\ FontIdx(reg, regLog[i].arg.latin) > 0

-----------------------------------------------------------------------------
(* Properties of render() (specification Spec) *)

\* the renderers that have returned an archive
Rendered == {r \in Renderers : uses[r] # "new"}

\* the data of the member name of renderer r's archive
PartData(r, name) == Part(archive[r], name).data

\* the hp:tbl elements of paragraph p
TablesOf(p) == {p.runs[i].tbl[1] : i \in {k \in 1..Len(p.runs) : p.runs[k].tbl # << >>}}

\* the hp:p elements inside the cells of the tables of paragraph p
CellParas(p) ==
    UNION {UNION {{t.rows[ri][ci].para : ci \in 1..Len(t.rows[ri])} :
                  ri \in 1..Len(t.rows)} :
           t \in TablesOf(p)}

\* every hp:p element of a section
SectionParas(sec) ==
    {sec[i] : i \in 1..Len(sec)} \cup UNION {CellParas(sec[i]) : i \in 1..Len(sec)}

\* C1: in every archive render() returns, each paraPrIDRef and charPrIDRef of
\* section0.xml (first paragraph, body paragraphs, table wrappers, table cell
\* paragraphs, the blank fallback paragraph) is the id of the paraPr / charPr
\* at that index of the same archive's header.xml; and the registry after the
\* section was built holds no character or paragraph style beyond those the
\* header, serialized earlier, lists.
C1_CrossReferences ==
    \A r \in Rendered :
        LET header  == PartData(r, "Contents/header.xml")
            section == PartData(r, "Contents/section0.xml")
            chars   == header.charProperties
            paras   == header.paraProperties
        IN  /\ \A p \in SectionParas(section) :
                  /\ p.paraPrIDRef \in 0..(Len(paras) - 1)
                  /\ paras[p.paraPrIDRef + 1].id = p.paraPrIDRef
                  /\ \A i \in 1..Len(p.runs) :
                        /\ p.runs[i].charPrIDRef \in 0..(Len(chars) - 1)
                        /\ chars[p.runs[i].charPrIDRef + 1].id = p.runs[i].charPrIDRef
            /\ Len(rnd[r].registry.char_list) = Len(chars)
            /\ Len(rnd[r].registry.para_list) = Len(paras)

\* an archive whose section holds a table with cell paragraphs and a run that
\* refers to a character style other than the body's, and an archive with the
\* blank fallback paragraph
C1_Witness ==
    /\ \E r \in Rendered :
          \E p \in SectionParas(PartData(r, "Contents/section0.xml")) :
              /\ CellParas(p) # {}
              /\ \E q \in CellParas(p) : \E i \in 1..Len(q.runs) : q.runs[i].charPrIDRef > 0
    /\ \E r \in Rendered : lastDoc[r] = DocEmpty

\* C5: in every archive render() returns, the first member written is named
\* mimetype, is stored uncompressed and holds exactly application/hwp+zip;
\* every other member is deflated.
C5_MimetypeFirstStored ==
    \A r \in Rendered :
        /\ archive[r][1].name = "mimetype"
        /\ archive[r][1].compress_type = "ZIP_STORED"
        /\ archive[r][1].data = "application/hwp+zip"
        /\ \A i \in 2..Len(archive[r]) :
              /\ archive[r][i].name # "mimetype"
              /\ archive[r][i].compress_type = "ZIP_DEFLATED"

\* both renderers have returned an archive, for a tree with content and for
\* the empty tree
C5_Witness ==
    /\ Rendered = Renderers
    /\ \E r \in Rendered : lastDoc[r] = DocLists
    /\ \E r \in Rendered : lastDoc[r] = DocEmpty
    /\ \A r \in Rendered : Len(archive[r]) > 1

\* the position of member name in archive a (0: not there)
Pos(a, name) ==
    IF \E i \in 1..Len(a) : a[i].name = name
    THEN CHOOSE i \in 1..Len(a) : a[i].name = name
    ELSE 0

\* how many members of archive a are named name
Count(a, name) == Cardinality({i \in 1..Len(a) : a[i].name = name})

FixedParts == {"version.xml", "META-INF/container.xml", "META-INF/container.rdf",
               "settings.xml"}

C7_ByteIdentical ==
    \A r1 \in Renderers : \A r2 \in Renderers :
        (uses[r1] = "once" /\ uses[r2] = "once" /\ lastDoc[r1] = lastDoc[r2])
        => archive[r1] = archive[r2]

\* C8: whatever a renderer rendered before, the header entries, the section
\* (paragraph ids and style ids included), the preview text and the counter,
\* preview buffer and registry left behind by its latest render() are those
\* of a freshly constructed renderer with the same preset given the same tree.
C8_ReuseEqualsFresh ==
    \A r \in Rendered :
        \A fresh \in {Render(NewRenderer, BuildDefaultStyles, lastDoc[r], now)} :
            /\ \A name \in {"Contents/header.xml", "Contents/section0.xml",
                            "Preview/PrvText.txt"} :
                  PartData(r, name) = Part(fresh.data, name).data
            /\ rnd[r].para_id = fresh.st.para_id
            /\ rnd[r].preview_lines = fresh.st.preview_lines
            /\ rnd[r].registry = fresh.st.registry

\* a renderer used more than once and one used once hold archives for the
\* same tree, a tree with paragraphs, styles and preview lines of its own
C8_Witness ==
    \E r1 \in Renderers : \E r2 \in Renderers :
        /\ uses[r1] = "reused" /\ uses[r2] = "once"
        /\ lastDoc[r1] = DocText /\ lastDoc[r2] = DocText

\* the overrides the renderer passes to derive()
RenderOverrides ==
    {NoOverrides, LinkOverrides, ImageOverrides, FootnoteRefOverrides,
     [bold |-> TRUE], [italic |-> TRUE], [strikethrough |-> TRUE],
     [align |-> "center"], [left_margin_pt |-> ListIndentPerDepth]}

\* derive(overrides) on self leaves self as it was and returns a value that
\* has the overrides in the overridden fields and self's values elsewhere
DeriveIsPure(self, overrides) ==
    LET d == Derive(self, overrides)
    IN  /\ d.self = self
        /\ DOMAIN d.result = DOMAIN self
        /\ \A k \in DOMAIN self :
              d.result[k] = IF k \in DOMAIN overrides THEN overrides[k] ELSE self[k]

\* C9: no render() changes a style definition of the preset: get_style(name)
\* returns the fonts and paragraph specifications it returned after
\* construction, and derive() on any of them returns a value differing from
\* the receiver in the overridden fields only, the receiver unchanged.
C9_PresetUnchanged ==
    \A r \in Renderers :
        /\ \A name \in StyleNames \cup {"no_such_style"} :
              GetStyle(styles[r], name) = GetStyle(BuildDefaultStyles, name)
        /\ \A name \in StyleNames : \A ov \in RenderOverrides :
              /\ DeriveIsPure(styles[r][name].font, ov)
              /\ DeriveIsPure(styles[r][name].para, ov)

\* a renderer has rendered, more than once, trees whose inline nodes, images,
\* links, rules and table cells call derive() on preset styles
C9_Witness ==
    \E r \in Renderers : uses[r] = "reused" /\ lastDoc[r] \in {DocText, DocTables}

-----------------------------------------------------------------------------
(* Families of trees for one render() each (specification SpecTree) *)

MaxBlocks == 2      \* top-level nodes of a tree of EmptyDocs

RECURSIVE SeqsUpTo(_, _)
\* all sequences of 0..n elements of S
SeqsUpTo(S, n) ==
    IF n = 0 THEN {<< >>}
    ELSE Let(SeqsUpTo(S, n - 1), LAMBDA shorter :
         shorter \cup {Append(q, x) : q \in {p \in shorter : Len(p) = n - 1}, x \in S})

\* nodes that render to no fragment
NothingNodes ==
    {P(<< >>), T(<< >>), N("table", << >>), N("blockquote", << >>),
     Node("unknown"), [Node("code_block") EXCEPT !.text = << >>],
     N("blockquote", <<N("table_row", <<T(S_a)>>)>>)}

\* documents of up to MaxBlocks top-level nodes, each rendering to nothing
\* or being the paragraph "a"
EmptyDocs == {Doc(q) : q \in SeqsUpTo(NothingNodes \cup {P(<<T(S_a)>>)}, MaxBlocks)}

MaxExtra == 2       \* blocks of a tree of PreviewDocs beyond PreviewLimit + 1

\* the i-th top-level block of a tree of PreviewDocs: a heading or a paragraph
\* holding the number i; with gaps, every 25th block is a paragraph of
\* white space
PreviewBlock(i, gaps) ==
    IF gaps /\ i % 25 = 0 THEN P(<<T(<<" ">>)>>)
    ELSE IF i % 3 = 0 THEN H(i % 8, <<T(NatStr(i))>>)
    ELSE IF i % 3 = 1 THEN P(<<T(NatStr(i))>>)
    ELSE P(<<N("bold", <<T(NatStr(i))>>), T(<<" ", "b">>)>>)

\* documents of n headings and paragraphs, n up to and beyond the preview limit
PreviewDocs ==
    {Doc([i \in 1..n |-> PreviewBlock(i, gaps)]) :
        n \in (0..MaxExtra) \cup ((PreviewLimit - 1)..(PreviewLimit + 1 + MaxExtra)),
        gaps \in BOOLEAN}

MaxRows == 2        \* rows of a table of TableDocs
MaxCols == 2        \* cells of the first row of a table of TableDocs

\* the cells a table of TableDocs is made of
CellKinds ==
    <<Cell(<<T(S_a)>>, TRUE, ""),
      Cell(<< >>, FALSE, "center"),
      Cell(<<N("bold", <<T(S_ab)>>), T(<<"b">>)>>, FALSE, "right"),
      Cell(<<[Node("inline_code") EXCEPT !.text = S_a]>>, TRUE, "left")>>

\* a table of nrows rows, the first of ncols cells, each row having ragged
\* cells less than the row before it; v shifts the choice of cells
TableOf(nrows, ncols, ragged, v) ==
    N("table",
      [r \in 1..nrows |->
          N("table_row",
            [c \in 1..Max(0, ncols - ragged * (r - 1)) |->
                CellKinds[((r + c + v) % Len(CellKinds)) + 1]])])

\* documents of one table, and of a table after another
TableDocs ==
    {Doc(<<TableOf(nrows, ncols, ragged, v)>>) :
        nrows \in 1..MaxRows, ncols \in 0..MaxCols, ragged \in 0..2,
        v \in 1..Len(CellKinds)}
    \cup {Doc(<<TableOf(1, 1, 0, 1), TableOf(MaxRows, MaxCols, 1, 2)>>)}

MaxOver == 3        \* how far the heading levels run below 1 and above 6

\* the heading levels tried: 1 - MaxOver .. 6 + MaxOver
HeadingLevels == (1 - MaxOver)..(6 + MaxOver)

\* documents of one heading, of every level tried, with or without text
HeadingDocs ==
    {Doc(<<H(l, ch)>>) : l \in HeadingLevels, ch \in {<<T(S_a)>>, << >>}}
    \cup {Doc(<<H(l, <<T(S_a)>>), H(7 - l, <<N("bold", <<T(S_ab)>>)>>)>>) :
             l \in HeadingLevels}


MaxItems == 2       \* the longest top-level list tried

Ol(start, items) == [Node("ordered_list") EXCEPT !.start = start, !.children = items]
Ul(items) == N("unordered_list", items)
Li(children) == N("list_item", children)
ListOf(ordered, start, items) == IF ordered THEN Ol(start, items) ELSE Ul(items)

\* the declared starts tried (the parser turns a start of 0 into 1)
ListStarts == {1, 9}

\* the list put inside an item, with a start of its own: two items, the first of them, when deep, made
\* of nothing but one more ordered list
NestedList(ordered, deep) ==
    ListOf(ordered, 5,
           <<Li(IF deep
                THEN <<Ol(7, <<Li(<<P(<<T(S_a)>>)>>), Li(<<P(<<T(S_ab)>>)>>)>>)>>
                ELSE <<P(<<T(S_a)>>)>>),
             Li(<<P(<<T(S_a)>>)>>)>>)

NestedLists ==
    {NestedList(o, dp) : o \in BOOLEAN, dp \in BOOLEAN}

\* the items tried: with text, a checked task, empty, holding a list after its
\* text, holding a block quote that holds a list
ItemKinds == {"text", "task", "empty", "nest", "quote"}

ItemOf(kind, nested) ==
    CASE kind = "text" -> Li(<<P(<<T(S_a)>>)>>)
      [] kind = "task" -> [Node("task_list_item") EXCEPT !.checked = TRUE,
                                                         !.children = <<P(<<T(S_a)>>)>>]
      [] kind = "empty" -> Li(<< >>)
      [] kind = "nest" -> Li(<<P(<<T(S_a)>>), nested>>)
      [] kind = "quote" -> Li(<<P(<<T(S_a)>>), N("blockquote", <<nested>>)>>)

\* documents of one list of 1..MaxItems items
ListDocs ==
    {Doc(<<ListOf(o, s, [i \in 1..Len(kinds) |-> ItemOf(kinds[i], nested)])>>) :
        o \in BOOLEAN, s \in ListStarts, nested \in NestedLists,
        kinds \in SeqsUpTo(ItemKinds, MaxItems) \ {<< >>}}

\* a link node
Link(children, url) == [Node("link") EXCEPT !.children = children, !.url = url]

\* an image node
Image(alt, title, url) ==
    [Node("image") EXCEPT !.alt = alt, !.title = title, !.url = url]

\* the children a link of LinkDocs has: none, a text, a bold text and a text,
\* a text node without text
LinkChildren ==
    {<< >>, <<T(S_a)>>, <<N("bold", <<T(S_ab)>>), T(S_a)>>, <<T(<< >>)>>}

\* documents of one link as a block, with and without a url
LinkDocs == {Doc(<<Link(ch, url)>>) : ch \in LinkChildren, url \in {<< >>, S_url}}

\* the images tried: with and without alt text, title and url
Images ==
    {Image(alt, title, url) :
        alt \in {<< >>, S_a}, title \in {<< >>, <<"t">>}, url \in {<< >>, S_url}}

\* documents of one image as a block, then the same image inside a paragraph
ImageDocs == {Doc(<<img, P(<<img>>)>>) : img \in Images}

\* a table row of the cells given
Row(cells) == N("table_row", cells)

\* subtrees of malformed nesting: a node kind without handler, a table without
\* rows, a row and a cell outside a table, tables whose first or last row has
\* no cell, a table of one row without cells, a table whose children are not
\* rows
MalformedNodes ==
    {Node("unknown"), N("table", << >>), Row(<<CellKinds[1]>>), CellKinds[1],
     N("table", <<Row(<< >>), Row(<<CellKinds[1]>>)>>),
     N("table", <<Row(<<CellKinds[1]>>), Row(<< >>)>>),
     N("table", <<Row(<< >>)>>),
     N("table", <<T(S_a), P(<<T(S_a)>>)>>)}

\* documents of a malformed subtree between a paragraph and a heading, of the
\* two alone, and of a table between two tables without rows
MalformedDocs ==
    {Doc(<<P(<<T(S_a)>>), x, H(1, <<T(S_ab)>>)>>) : x \in MalformedNodes}
    \cup {Doc(<<P(<<T(S_a)>>), H(1, <<T(S_ab)>>)>>),
          Doc(<<N("table", << >>), TableOf(2, 2, 0, 1), N("table", << >>)>>)}

\* documents of one table whose later rows are longer than its first row
LongRowDocs ==
    {Doc(<<N("table", <<Row([c \in 1..n |-> CellKinds[c]]),
                        Row([c \in 1..(n + more) |-> CellKinds[(c % Len(CellKinds)) + 1]])>>)>>) :
        n \in 0..2, more \in 1..2}

-----------------------------------------------------------------------------
(* table_handler.py : TableHandler, the table renderer that stands beside *)
(* the one of renderer.py                                                  *)

DefaultColWidth == 3000
HandlerRowHeight == 800

RECURSIVE ExtractText(_)
\* extract_text of _get_cell_text: the node's text, then that of its children
ExtractText(node) ==
    node.text \o Concat([i \in 1..Len(node.children) |-> ExtractText(node.children[i])])

\* _get_cell_text
GetCellText(cell_node) == Strip(ExtractText(cell_node))

\* an hp:tc element of TableHandler: cellAddr, sz and the paragraph, which has
\* an align element for "center" and "right" and a run when there is text
HandlerCellEl(row_idx, col_idx, is_header, align, text) ==
    [colAddr |-> col_idx, rowAddr |-> row_idx, colSpan |-> 1, rowSpan |-> 1,
     width |-> DefaultColWidth, height |-> HandlerRowHeight, header |-> is_header,
     para |-> [align |-> IF align \in {"center", "right"} THEN align ELSE "",
               runs |-> IF text = << >> THEN << >>
                        ELSE <<[bold |-> is_header, t |-> text]>>]]

\* _render_cell
HandlerRenderCell(cell_node, row_idx, col_idx) ==
    HandlerCellEl(row_idx, col_idx, cell_node.is_header,
                  IF cell_node.align # "" THEN cell_node.align ELSE "left",
                  GetCellText(cell_node))

\* _render_empty_cell
HandlerRenderEmptyCell(row_idx, col_idx) ==
    HandlerCellEl(row_idx, col_idx, FALSE, "", << >>)

\* _render_row: the cells among the first col_count children, then the empty
\* cells for range(len(cells), col_count)
HandlerRenderRow(row_node, row_idx, col_count) ==
    Let(row_node.children, LAMBDA cells :
    Let(SelectSeq([c \in 1..Min(Len(cells), col_count) |-> c],
                  LAMBDA c : cells[c].type = "table_cell"), LAMBDA kept :
    [k \in 1..Len(kept) |-> HandlerRenderCell(cells[kept[k]], row_idx, kept[k] - 1)]
    \o [k \in 1..Max(0, col_count - Len(cells)) |->
           HandlerRenderEmptyCell(row_idx, Len(cells) + k - 1)]))

\* _create_empty_row
CreateEmptyRow == N("table_row", <<Node("table_cell")>>)

\* TableHandler.render_table: [raised, tbl], tbl holding the one hp:tbl
\* element when nothing was raised
HandlerRenderTable(table_node) ==
    IF table_node.type # "table" THEN [raised |-> "ValueError", tbl |-> << >>]
    ELSE Let(IF table_node.children = << >> THEN <<CreateEmptyRow>>
             ELSE table_node.children, LAMBDA rows :
         Let(IF rows[1].children # << >> THEN Len(rows[1].children) ELSE 1,
             LAMBDA col_count :
         Let(SelectSeq([i \in 1..Len(rows) |-> i],
                       LAMBDA i : rows[i].type = "table_row"), LAMBDA kept :
         [raised |-> "none",
          tbl |-> <<[colCnt |-> col_count, rowCnt |-> Len(rows),
                     rows |-> [k \in 1..Len(kept) |->
                                  HandlerRenderRow(rows[kept[k]], kept[k] - 1,
                                                   col_count)]]>>])))

\* an item whose text stands after and between its nested blocks: an ordered
\* list, a paragraph, a code block, a text, an unordered list
MixedItem ==
    Li(<<Ol(7, <<Li(<<P(<<T(<<"c">>)>>)>>)>>),
         P(<<T(S_a)>>),
         [Node("code_block") EXCEPT !.text = <<"x">>],
         T(<<"b">>),
         Ul(<<Li(<<T(<<"d">>)>>), Li(<< >>)>>)>>)

\* an item without text of its own that holds a code block and a list
BareItem ==
    Li(<<[Node("code_block") EXCEPT !.text = <<"y">>],
         Ul(<<Li(<<P(<<T(<<"e">>)>>), Ol(3, <<Li(<<T(<<"f">>)>>)>>)>>)>>)>>)

\* documents of a list whose items hold their blocks in mixed order, and a
\* list of one item after it
OrderDocs ==
    {Doc(<<ListOf(o, 1, items), Ul(<<Li(<<P(<<T(S_a)>>)>>)>>)>>) :
        o \in BOOLEAN,
        items \in {<<MixedItem, Li(<<P(<<T(S_a)>>)>>)>>, <<BareItem, MixedItem>>,
                   <<Li(<<P(<<T(S_ab)>>)>>), BareItem>>}}

\* documents of a table of one cell and then so many paragraphs that the
\* paragraph ids stop one short of the table's id, or reach it
BigDocs ==
    {Doc(<<TableOf(1, 1, 0, 1)>> \o [i \in 1..n |-> P(<<T(S_a)>>)]) :
        n \in {TableIdOffset - 4, TableIdOffset - 3}}
-----------------------------------------------------------------------------
(* SpecTree: a renderer is constructed and render() is called on one tree *)

TreeDocs ==
    EmptyDocs \cup PreviewDocs \cup TableDocs \cup HeadingDocs \cup ListDocs
    \cup LinkDocs \cup ImageDocs \cup MalformedDocs \cup LongRowDocs \cup OrderDocs \cup BigDocs

\* HwpxRenderer(StyleManager(preset)) for each renderer, and the tree the
\* first will be given
InitTree ==
    /\ reg = NewRegistry
    /\ regLog = << >>
    /\ \E name \in Presets : preset = [r \in Renderers |-> name]
    /\ styles = [r \in Renderers |-> LoadPreset(preset[r])]
    /\ rnd = [r \in Renderers |-> NewRenderer]
    /\ archive = [r \in Renderers |-> << >>]
    /\ lastDoc = [r \in Renderers |-> Doc(<< >>)]
    /\ uses = [r \in Renderers |-> "new"]
    /\ now = 1
    /\ tree \in TreeDocs
    /\ fs = << >>
    /\ outcome = << >>
    /\ req = << >>

\* renderer.render(tree)
RenderTree == RenderCall(1, tree)

\* TableHandler().render_table(node) for each child of a tree that holds a
\* table, the values returned kept in child order
CallRenderTable ==
    /\ outcome = << >>
    /\ \E i \in 1..Len(tree.children) : tree.children[i].type = "table"
    /\ outcome' = [i \in 1..Len(tree.children) |-> HandlerRenderTable(tree.children[i])]
    /\ UNCHANGED <<regVars, rndVars, fs, req>>

NextTree == RenderTree \/ CallRenderTable

SpecTree == InitTree /\ [][NextTree]_vars

\* the fragments render() collected from the children of renderer r's last
\* tree, before packaging
BodyFragments(r) ==
    RenderNodes(RenderFirstIds(WithStyles(NewRenderer, styles[r])),
                lastDoc[r].children).els

\* the section ends with the one fallback paragraph: a single run of one space
HasFallback(section) ==
    /\ Len(section) = 2
    /\ Len(section[2].runs) = 1
    /\ section[2].runs[1].t = <<" ">>
    /\ section[2].runs[1].ctrl = "none"

\* C11 as stated: a tree that yields no fragment gives a complete archive
\* whose section is the preamble paragraph and one fallback paragraph with a
\* single-space run, and whose preview part is empty; with a fragment there is
\* no fallback paragraph.
C11_AsStated ==
    \A r \in Rendered : \A els \in {BodyFragments(r)} :
        /\ [i \in 1..Len(archive[r]) |-> archive[r][i].name] = WriteOrder
        /\ PartData(r, "Contents/section0.xml")[1].runs[1].ctrl = "secPr"
        /\ els = << >> =>
              /\ HasFallback(PartData(r, "Contents/section0.xml"))
              /\ PartData(r, "Preview/PrvText.txt") = << >>
        /\ els # << >> => Tail(PartData(r, "Contents/section0.xml")) = els

\* C11: a tree that yields no fragment gives a complete archive whose section
\* is the preamble paragraph and one fallback paragraph with a single-space
\* run; its preview part is empty when the document has no children (a child
\* that renders to nothing may still append a preview line, as an empty code
\* block does). With a fragment there is no fallback paragraph: the section
\* is the preamble paragraph and the fragments.
C11_EmptyFallback ==
    \A r \in Rendered : \A els \in {BodyFragments(r)} :
        /\ [i \in 1..Len(archive[r]) |-> archive[r][i].name] = WriteOrder
        /\ PartData(r, "Contents/section0.xml")[1].runs[1].ctrl = "secPr"
        /\ els = << >> => HasFallback(PartData(r, "Contents/section0.xml"))
        /\ lastDoc[r].children = << >> => PartData(r, "Preview/PrvText.txt") = << >>
        /\ els # << >> => Tail(PartData(r, "Contents/section0.xml")) = els

\* a tree with children was rendered, none of which gave a fragment
C11_Witness ==
    \E r \in Rendered :
        /\ lastDoc[r].children # << >>
        /\ BodyFragments(r) = << >>
        /\ HasFallback(PartData(r, "Contents/section0.xml"))

RECURSIVE TopLevelLines(_)
\* the preview lines the top-level headings and paragraphs of a sequence of
\* nodes call for: the flattened text of every heading, and of every paragraph
\* whose text is not white space
TopLevelLines(children) ==
    IF children = << >> THEN << >>
    ELSE (IF \/ Head(children).type = "heading"
             \/ /\ Head(children).type = "paragraph"
                /\ Strip(ExtractPlainText(Head(children))) # << >>
          THEN <<ExtractPlainText(Head(children))>> ELSE << >>)
         \o TopLevelLines(Tail(children))

\* C12: the preview part is the first min(50, n) of the n preview lines
\* appended during the render, in append order, joined by newline and encoded
\* as UTF-8; in a tree of top-level headings and paragraphs the lines appended
\* are the flattened text of every heading and of every paragraph whose text
\* is not white space, in document order.
C12_PreviewLines ==
    \A r \in Rendered :
        /\ PartData(r, "Preview/PrvText.txt") =
              Utf8(JoinLines(SubSeq(rnd[r].preview_lines, 1,
                                    Min(PreviewLimit, Len(rnd[r].preview_lines)))))
        /\ (\A i \in 1..Len(lastDoc[r].children) :
                lastDoc[r].children[i].type \in {"heading", "paragraph"})
           => rnd[r].preview_lines = TopLevelLines(lastDoc[r].children)

\* a tree of headings and paragraphs that appended more than 50 preview lines,
\* one paragraph of white space among them, was rendered
C12_Witness ==
    \E r \in Rendered :
        /\ Len(rnd[r].preview_lines) > PreviewLimit
        /\ rnd[r].preview_lines = TopLevelLines(lastDoc[r].children)
        /\ Len(lastDoc[r].children) > Len(rnd[r].preview_lines)
        /\ PartData(r, "Preview/PrvText.txt") # Utf8(JoinLines(rnd[r].preview_lines))

\* a occurs in b as a run of consecutive characters
IsInfix(a, b) ==
    \E i \in 0..(Len(b) - Len(a)) : \A k \in 1..Len(a) : b[i + k] = a[k]

\* the text of the runs of paragraph p, joined
RunsText(p) == Concat([i \in 1..Len(p.runs) |-> p.runs[i].t])

\* fragment p is what C13 asks for the table node: one run, holding one table
\* element and then a single space, the table holding a row per source row and
\* in each row a cell per source cell, in source order, the cell's text inside
\* the cell's paragraph
TableFragment(p, node) ==
    /\ Len(p.runs) = 1
    /\ p.runs[1].ctrl = "tbl"
    /\ Len(p.runs[1].tbl) = 1
    /\ p.runs[1].t = <<" ">>
    /\ Len(p.runs[1].tbl[1].rows) = Len(node.children)
    /\ \A ri \in 1..Len(node.children) :
          /\ Len(p.runs[1].tbl[1].rows[ri]) = Len(node.children[ri].children)
          /\ \A ci \in 1..Len(node.children[ri].children) :
                /\ p.runs[1].tbl[1].rows[ri][ci].rowAddr = ri - 1
                /\ p.runs[1].tbl[1].rows[ri][ci].colAddr = ci - 1
                /\ p.runs[1].tbl[1].rows[ri][ci].header =
                      node.children[ri].children[ci].is_header
                /\ IsInfix(ExtractPlainText(node.children[ri].children[ci]),
                           RunsText(p.runs[1].tbl[1].rows[ri][ci].para))

\* renderer r's last tree is made of tables with at least one row each
OnlyTables(r) ==
    /\ lastDoc[r].children # << >>
    /\ \A i \in 1..Len(lastDoc[r].children) :
          /\ lastDoc[r].children[i].type = "table"
          /\ lastDoc[r].children[i].children # << >>

\* C13: every table node with at least one row renders to exactly one
\* fragment, a paragraph whose single run holds the one table element followed
\* by a single-space text; the table element has one row per source row and,
\* in each row, one cell per source cell in source order with the cell's text
\* inside the cell's paragraph.
C13_TableFragment ==
    \A r \in Rendered :
        OnlyTables(r) =>
            /\ Len(PartData(r, "Contents/section0.xml")) = 1 + Len(lastDoc[r].children)
            /\ \A i \in 1..Len(lastDoc[r].children) :
                  TableFragment(PartData(r, "Contents/section0.xml")[i + 1],
                                lastDoc[r].children[i])

\* a table was rendered that has a row without cells, a row with several
\* cells, and a cell without text
C13_Witness ==
    \E r \in Rendered :
        /\ OnlyTables(r)
        /\ \E ri \in 1..Len(lastDoc[r].children[1].children) :
              lastDoc[r].children[1].children[ri].children = << >>
        /\ \E ri \in 1..Len(lastDoc[r].children[1].children) :
              /\ Len(lastDoc[r].children[1].children[ri].children) > 1
              /\ \E ci \in 1..Len(lastDoc[r].children[1].children[ri].children) :
                    lastDoc[r].children[1].children[ri].children[ci].children = << >>

\* min(6, max(1, L)), spelled out
ClampedLevel(L) == IF L < 1 THEN 1 ELSE IF L > 6 THEN 6 ELSE L

\* renderer r's last tree is made of headings only
OnlyHeadings(r) ==
    /\ lastDoc[r].children # << >>
    /\ \A i \in 1..Len(lastDoc[r].children) : lastDoc[r].children[i].type = "heading"

\* the paragraph specification that paragraph p of renderer r's section
\* refers to
ParaSpecOf(r, p) == rnd[r].registry.para_list[p.paraPrIDRef + 1]

\* the fonts that the runs of paragraph p of renderer r's section refer to
FontsOf(r, p) ==
    {rnd[r].registry.char_list[p.runs[i].charPrIDRef + 1] : i \in 1..Len(p.runs)}

\* C14: a heading of any integer level L, below 1 and above 6 included, is
\* rendered with the paragraph specification of the style
\* heading_<min(6, max(1, L))> and its runs with fonts derived from that
\* style's font: the same size, face and colour.
C14_HeadingClamp ==
    \A r \in Rendered :
        OnlyHeadings(r) =>
            /\ Len(PartData(r, "Contents/section0.xml")) = 1 + Len(lastDoc[r].children)
            /\ \A i \in 1..Len(lastDoc[r].children) :
                  \A style \in {LoadPreset(preset[r])[
                                   HeadingName(ClampedLevel(lastDoc[r].children[i].level))]} :
                      /\ ParaSpecOf(r, PartData(r, "Contents/section0.xml")[i + 1])
                            = style.para
                      /\ \A f \in FontsOf(r, PartData(r, "Contents/section0.xml")[i + 1]) :
                            /\ f.size_pt = style.font.size_pt
                            /\ f.hangul = style.font.hangul
                            /\ f.latin = style.font.latin
                            /\ f.color = style.font.color

\* headings of a level below 1 and of a level above 6 were rendered, with text
C14_Witness ==
    \E r \in Rendered :
        /\ OnlyHeadings(r)
        /\ \E i \in 1..Len(lastDoc[r].children) : lastDoc[r].children[i].level < 1
        /\ \E i \in 1..Len(lastDoc[r].children) : lastDoc[r].children[i].level > 6
        /\ \A i \in 1..Len(lastDoc[r].children) :
              PartData(r, "Contents/section0.xml")[i + 1].runs # << >>


-----------------------------------------------------------------------------
(* Properties of lists (specification SpecTree) *)

ListTypes == {"ordered_list", "unordered_list"}

RECURSIVE ItemsInOrder(_, _, _)
RECURSIVE ItemsUnder(_, _, _)
\* the items of the list node, and of the lists below them, in document order
\* (an item, then what its children hold, then its next sibling). Each comes
\* with its list's kind, the number start + i - 1 of its position i in its
\* list, the sibling positions that lead to it (path), and the number of
\* items around it counted through lists that are children of items (direct):
\* a list that sits in a block quote counts from 0 again
ItemsInOrder(list, direct, path) ==
    Concat([i \in 1..Len(list.children) |->
        <<[item |-> list.children[i],
           ordered |-> list.type = "ordered_list",
           number |-> list.start + i - 1,
           direct |-> direct,
           path |-> Append(path, i)]>>
        \o ItemsUnder(list.children[i], direct + 1, Append(path, i))])

\* the items of the lists among the children of node (an item or a block
\* quote)
ItemsUnder(node, direct, path) ==
    Concat([k \in 1..Len(node.children) |->
        IF node.children[k].type \in ListTypes
        THEN ItemsInOrder(node.children[k], direct, path)
        ELSE IF node.children[k].type = "blockquote"
        THEN ItemsUnder(node.children[k], 0, path)
        ELSE << >>])

\* renderer r's last tree is one list
OnlyList(r) ==
    /\ Len(lastDoc[r].children) = 1
    /\ lastDoc[r].children[1].type \in ListTypes

\* the items of renderer r's last tree, in document order
ListItemsOf(r) == ItemsInOrder(lastDoc[r].children[1], 0, << >>)

\* a is how b begins
IsPrefix(a, b) == Len(a) <= Len(b) /\ \A k \in 1..Len(a) : b[k] = a[k]

\* paragraph p is the one of the item e of an ordered list: its text is
\* "<number>. " and then the item's own text, or the label "<number>." alone
\* when the item has no text of its own
NumberedParagraph(p, e) ==
    /\ p.runs # << >>
    /\ IF e.item.children # << >> /\ e.item.children[1].type = "paragraph"
       THEN RunsText(p) = NatStr(e.number) \o <<".", " ">>
                          \o ExtractPlainText(e.item.children[1])
       ELSE RunsText(p) = NatStr(e.number) \o <<".">>

\* C15: in an ordered list with declared start N, at the top or nested, the
\* child item at position i (1-based), unless it is a task item, is rendered
\* with the prefix "<N+i-1>. ": the counter advances by exactly one per
\* sibling, task items included, is neither reset nor advanced by the lists
\* nested inside an earlier sibling, and a nested ordered list starts at its
\* own declared start.
C15_OrderedCounter ==
    \A r \in Rendered :
        OnlyList(r) =>
            \A items \in {ListItemsOf(r)} :
                /\ Len(PartData(r, "Contents/section0.xml")) = 1 + Len(items)
                /\ \A j \in 1..Len(items) :
                      (items[j].ordered /\ items[j].item.type # "task_list_item")
                      => NumberedParagraph(PartData(r, "Contents/section0.xml")[j + 1],
                                           items[j])

\* an ordered list starting at 9 was rendered whose first item holds an
\* ordered list that holds another, and whose second item got the number 10
C15_Witness ==
    \E r \in Rendered :
          /\ OnlyList(r)
          /\ lastDoc[r].children[1].type = "ordered_list"
          /\ lastDoc[r].children[1].start = 9
          /\ \E j \in 1..Len(ListItemsOf(r)) :
                /\ ListItemsOf(r)[j].ordered
                /\ Len(ListItemsOf(r)[j].path) = 3
          /\ RunsText(PartData(r, "Contents/section0.xml")[
                         Len(PartData(r, "Contents/section0.xml"))])
                = <<"1", "0", ".", " ", "a">>

\* the left margin of the paragraph of the j-th item of renderer r's list
ItemMargin(r, j) ==
    ParaSpecOf(r, PartData(r, "Contents/section0.xml")[j + 1]).left_margin_pt

\* the left margin of the list_item style of renderer r's preset
ListItemStyleMargin(r) == LoadPreset(preset[r])["list_item"].para.left_margin_pt

\* item k of items is the item that holds the list (directly, or inside a
\* block quote) that item j belongs to
Holds(items, k, j) ==
    /\ Len(items[j].path) > 1
    /\ items[k].path = SubSeq(items[j].path, 1, Len(items[j].path) - 1)

\* C16 as stated: every list item is rendered with a left margin of the
\* list_item style's left margin plus 20 points times the number of list
\* items that enclose it, so an item of a nested list always has a strictly
\* greater left margin than the item that contains that list.
C16_AsStated ==
    \A r \in Rendered :
        OnlyList(r) =>
            \A items \in {ListItemsOf(r)} :
                /\ \A j \in 1..Len(items) :
                      ItemMargin(r, j) = ListItemStyleMargin(r)
                          + ListIndentPerDepth * (Len(items[j].path) - 1)
                /\ \A j, k \in 1..Len(items) :
                      Holds(items, k, j) => ItemMargin(r, j) > ItemMargin(r, k)

\* C16, amended: every list item is rendered with a left margin of the
\* list_item style's left margin plus 20 points times its nesting depth, the
\* depth counting the enclosing list items through lists that are children of
\* list items (a list inside a block quote inside an item is at depth 0
\* again); so an item of a list that is a child of an item always has a
\* strictly greater left margin than that item.
C16_ListMargin ==
    \A r \in Rendered :
        OnlyList(r) =>
            \A items \in {ListItemsOf(r)} :
                /\ Len(PartData(r, "Contents/section0.xml")) = 1 + Len(items)
                /\ \A j \in 1..Len(items) :
                      ItemMargin(r, j) = ListItemStyleMargin(r)
                          + ListIndentPerDepth * items[j].direct
                /\ \A j, k \in 1..Len(items) :
                      (Holds(items, k, j) /\ items[j].direct > 0)
                      => ItemMargin(r, j) > ItemMargin(r, k)

\* a list was rendered with an item two items deep, under a preset whose
\* list_item style has a left margin
C16_Witness ==
    \E r \in Rendered :
        /\ OnlyList(r)
        /\ ListItemStyleMargin(r) > 0
        /\ \E j \in 1..Len(ListItemsOf(r)) : ListItemsOf(r)[j].direct = 2

\* a list was rendered that sits in a block quote inside a list item
C16_QuotedList ==
    \E r \in Rendered :
        /\ OnlyList(r)
        /\ \E j \in 1..Len(ListItemsOf(r)) :
              ListItemsOf(r)[j].direct < Len(ListItemsOf(r)[j].path) - 1

-----------------------------------------------------------------------------
(* converter.py, cli.py : files, Converter, the command line *)

\* a path, as pathlib splits it: the directory ("" is the current one), the
\* stem and the suffix of the name. A command-line word is one such value, an
\* option word being all stem
PathOf(dir, stem, suffix) == [dir |-> dir, stem |-> stem, suffix |-> suffix]
Word(s) == PathOf("", s, "")

\* what a file holds: text that parses to the tree doc (decodable tells
\* whether its bytes decode as UTF-8), or the archive data
Content(kind, decodable, doc, data) ==
    [kind |-> kind, decodable |-> decodable, doc |-> doc, data |-> data]

InMd == PathOf("", "in", ".md")
BadMd == PathOf("", "bad", ".md")
MissingMd == PathOf("", "missing", ".md")
OldHwpx == PathOf("", "old", ".hwpx")
OutHwpx == PathOf("out", "x", ".hwpx")

\* the file systems a call starts from: a Markdown file, a file whose bytes
\* are not UTF-8, an older output, and the directory out there or not
InitialFs ==
    {[files |-> (InMd :> Content("text", TRUE, DocHeadingOnly, << >>))
                @@ (BadMd :> Content("text", FALSE, DocEmpty, << >>))
                @@ (OldHwpx :> Content("text", TRUE, DocEmpty, << >>)),
      dirs |-> {""} \cup extra] : extra \in {{}, {"out"}}}

\* the codecs Python knows, of those tried
Encodings == {"utf-8"}

\* where a call can be made to fail from outside (memory, permissions, a full
\* disk), besides the failures the arguments cause
Faults == {"none", "parse", "render", "package", "mkdir", "write"}

\* how a step ends: raised is "none" or the exception, stage where it
\* was raised
Step(disk, raised, stage, value) ==
    [fs |-> disk, raised |-> raised, stage |-> stage, value |-> value]

\* A style manager that loads the preset without checking its name first.
StyleManagerInitUnchecked(name) ==
    IF name \notin Presets
    THEN [raised |-> "KeyError", preset |-> name]
    ELSE [raised |-> "none", preset |-> name]

\* StyleManager.__init__: [raised, preset]
StyleManagerInit(name) ==
    IF name \notin Presets
    THEN [raised |-> "ValueError", preset |-> ""]
    ELSE [raised |-> "none", preset |-> name]

\* Converter.__init__: the style manager, then the parser, then the renderer;
\* created is what has been constructed when it ends
ConverterInit(name) ==
    Let(StyleManagerInit(name), LAMBDA sm :
    IF sm.raised # "none"
    THEN [raised |-> sm.raised, preset |-> sm.preset, created |-> {}]
    ELSE [raised |-> "none", preset |-> sm.preset,
          created |-> {"style_manager", "parser", "renderer"}])

\* Path.read_text(encoding): the text, here the tree it parses to
ReadText(files, path, encoding) ==
    IF path \notin DOMAIN files
    THEN Step(files, "FileNotFoundError", "read", DocEmpty)
    ELSE IF encoding \notin Encodings
    THEN Step(files, "LookupError", "decode", DocEmpty)
    ELSE IF ~files[path].decodable
    THEN Step(files, "UnicodeDecodeError", "decode", DocEmpty)
    ELSE Step(files, "none", "", files[path].doc)

\* Converter.convert_text on a new converter of the preset: parser.parse, then
\* renderer.render, which ends with the packaging
ConvertText(name, doc, fault, clock) ==
    IF fault \in {"parse", "render", "package"}
    THEN Step(<< >>, "Exception", fault, << >>)
    ELSE Step(<< >>, "none", "", Render(NewRenderer, LoadPreset(name), doc, clock).data)

\* Path.mkdir(parents=True, exist_ok=True)
Mkdir(disk, dir, fault) ==
    IF fault = "mkdir" THEN Step(disk, "OSError", "mkdir", << >>)
    ELSE Step([disk EXCEPT !.dirs = @ \cup {dir}], "none", "", << >>)

\* open(path, "wb") and write(data): the file is created, or emptied, by the
\* open; a write that fails leaves it so when torn
WriteBytes(disk, path, data, fault, torn) ==
    IF path.dir \notin disk.dirs THEN Step(disk, "FileNotFoundError", "write", << >>)
    ELSE IF fault = "write"
    THEN Step(IF torn
              THEN [disk EXCEPT !.files = (path :> Content("hwpx", FALSE, DocEmpty, << >>)) @@ @]
              ELSE disk, "OSError", "write", << >>)
    ELSE Step([disk EXCEPT !.files = (path :> Content("hwpx", FALSE, DocEmpty, data)) @@ @],
              "none", "", << >>)

\* A convert_file that makes the output's directory before it reads.
ConvertFileDirFirst(disk, name, input_path, output_path, encoding, fault, torn, clock) ==
    Let(Mkdir(disk, output_path.dir, fault), LAMBDA made :
    IF made.raised # "none" THEN made
    ELSE Let(ReadText(made.fs.files, input_path, encoding), LAMBDA text :
    IF text.raised # "none" THEN Step(made.fs, text.raised, text.stage, << >>)
    ELSE Let(ConvertText(name, text.value, fault, clock), LAMBDA bytes :
    IF bytes.raised # "none" THEN Step(made.fs, bytes.raised, bytes.stage, << >>)
    ELSE WriteBytes(made.fs, output_path, bytes.value, fault, torn))))

\* Converter.convert_file on a converter of the preset
ConvertFile(disk, name, input_path, output_path, encoding, fault, torn, clock) ==
    Let(ReadText(disk.files, input_path, encoding), LAMBDA text :
    IF text.raised # "none" THEN Step(disk, text.raised, text.stage, << >>)
    ELSE Let(ConvertText(name, text.value, fault, clock), LAMBDA bytes :
    IF bytes.raised # "none" THEN Step(disk, bytes.raised, bytes.stage, << >>)
    ELSE Let(Mkdir(disk, output_path.dir, fault), LAMBDA made :
    IF made.raised # "none" THEN made
    ELSE WriteBytes(made.fs, output_path, bytes.value, fault, torn))))

\* HwpxRenderer.render_to_file on a renderer of the preset
RenderToFile(disk, name, doc, path, fault, torn, clock) ==
    IF fault \in {"render", "package"} THEN Step(disk, "Exception", fault, << >>)
    ELSE WriteBytes(disk, path, Render(NewRenderer, LoadPreset(name), doc, clock).data,
                    fault, torn)

\* None, or the empty string: what `not args.input` takes for no input
NoWord == Word("")

\* the option spellings of _build_parser, and one it does not know
OneArgOptions == {"-o", "--output", "-s", "--style", "-e", "--encoding"}
FlagOptions == {"--list-styles", "-v", "--verbose"}
ExitOptions == {"--version", "-h", "--help"}
UnknownOptions == {"--bogus"}
OptionWords ==
    {Word(s) : s \in OneArgOptions \cup FlagOptions \cup ExitOptions \cup UnknownOptions}

\* the string of a word that stands for a preset or a codec
PlainName(w) == IF w.dir = "" /\ w.suffix = "" THEN w.stem ELSE "?"

\* the namespace parse_args starts from
DefaultArgs ==
    [input |-> NoWord, output |-> NoWord, style |-> "default", encoding |-> "utf-8",
     list_styles |-> FALSE, verbose |-> FALSE, extras |-> FALSE]

\* how parse_args ends: exit is the status of SystemExit, or -1 when it
\* returns the namespace
Parsed(exit, args) == [exit |-> exit, args |-> args]

RECURSIVE ParseArgsFrom(_, _, _)
\* parse_args from word i on, the words taken left to right: --version and
\* -h leave with status 0 where they stand, an option without its value or a
\* style outside the choices leaves with status 2 where it stands, and the
\* words nothing takes (a second input, an unknown option) make it leave with
\* status 2 at the end
ParseArgsFrom(argv, i, args) ==
    IF i > Len(argv) THEN Parsed(IF args.extras THEN 2 ELSE -1, args)
    ELSE IF argv[i] \in {Word(s) : s \in ExitOptions} THEN Parsed(0, args)
    ELSE IF argv[i] \in {Word(s) : s \in OneArgOptions}
    THEN IF i = Len(argv) \/ argv[i + 1] \in OptionWords THEN Parsed(2, args)
         ELSE IF argv[i].stem \in {"-o", "--output"}
         THEN ParseArgsFrom(argv, i + 2, [args EXCEPT !.output = argv[i + 1]])
         ELSE IF argv[i].stem \in {"-e", "--encoding"}
         THEN ParseArgsFrom(argv, i + 2,
                            [args EXCEPT !.encoding = PlainName(argv[i + 1])])
         ELSE IF PlainName(argv[i + 1]) \notin Presets THEN Parsed(2, args)
         ELSE ParseArgsFrom(argv, i + 2, [args EXCEPT !.style = PlainName(argv[i + 1])])
    ELSE IF argv[i] = Word("--list-styles")
    THEN ParseArgsFrom(argv, i + 1, [args EXCEPT !.list_styles = TRUE])
    ELSE IF argv[i] \in {Word("-v"), Word("--verbose")}
    THEN ParseArgsFrom(argv, i + 1, [args EXCEPT !.verbose = TRUE])
    ELSE IF argv[i] \in OptionWords \/ args.input # NoWord
    THEN ParseArgsFrom(argv, i + 1, [args EXCEPT !.extras = TRUE])
    ELSE ParseArgsFrom(argv, i + 1, [args EXCEPT !.input = argv[i]])

\* parser.parse_args(argv)
ParseArgs(argv) == ParseArgsFrom(argv, 1, DefaultArgs)

\* how main ends: status is what it returned or the status of the SystemExit
\* that left it (returned tells which), raised the exception the try block
\* caught, read and wrote whether the input was read and the output written
Ended(disk, status, returned, raised, read, wrote) ==
    [fs |-> disk, status |-> status, returned |-> returned, raised |-> raised,
     read |-> read, wrote |-> wrote]

\* A try block that ends with status 0 whatever convert_file raised.
MainConvertIgnoringErrors(disk, args, output_path, fault, torn, clock) ==
    Let(ConvertFile(disk, args.style, args.input, output_path, args.encoding,
                    fault, torn, clock), LAMBDA done :
    Ended(done.fs, 0, TRUE, done.raised, done.stage # "read", done.raised = "none"))

\* the try block of main: Converter(args.style).convert_file(...), any
\* Exception turned into status 1
MainConvert(disk, args, output_path, fault, torn, clock) ==
    Let(ConverterInit(args.style), LAMBDA conv :
    IF conv.raised # "none" THEN Ended(disk, 1, TRUE, conv.raised, FALSE, FALSE)
    ELSE Let(ConvertFile(disk, args.style, args.input, output_path, args.encoding,
                         fault, torn, clock), LAMBDA done :
    IF done.raised # "none"
    THEN Ended(done.fs, 1, TRUE, done.raised, done.stage # "read", FALSE)
    ELSE Ended(done.fs, 0, TRUE, "none", TRUE, TRUE)))

\* main(argv)
Main(disk, argv, fault, torn, clock) ==
    Let(ParseArgs(argv), LAMBDA parsed :
    IF parsed.exit # -1 THEN Ended(disk, parsed.exit, FALSE, "none", FALSE, FALSE)
    ELSE IF parsed.args.list_styles THEN Ended(disk, 0, TRUE, "none", FALSE, FALSE)
    ELSE IF parsed.args.input = NoWord THEN Ended(disk, 2, FALSE, "none", FALSE, FALSE)
    ELSE IF parsed.args.input \notin DOMAIN disk.files THEN Ended(disk, 1, TRUE, "none", FALSE, FALSE)
    ELSE MainConvert(disk, parsed.args,
                     IF parsed.args.output # NoWord THEN parsed.args.output
                     ELSE [parsed.args.input EXCEPT !.suffix = ".hwpx"],
                     fault, torn, clock))

-----------------------------------------------------------------------------
(* SpecApp: one call of the library or of the command line, made on one of
   the initial file systems *)

MaxArgs == 2        \* the longest command line tried, of those made of any words

\* the preset names tried
NamesTried == Presets \cup {"bogus", "Default", ""}

\* the words command lines are made of
CliWords ==
    {InMd, MissingMd, OldHwpx, OutHwpx, Word("academic"), Word("bogus"), Word("-o"),
     Word("--style"), Word("--list-styles"), Word("--version"), Word("-h"),
     Word("--bogus")}

\* the command lines tried: every one of up to MaxArgs words, and some longer
ArgvsTried ==
    SeqsUpTo(CliWords, MaxArgs)
    \cup {<<InMd, Word("-o"), OutHwpx, Word("-s"), Word("academic")>>,
          <<InMd, Word("-e"), Word("latin-x"), Word("-v")>>,
          <<InMd, Word("-v"), Word("--help")>>,
          <<Word("--output"), OldHwpx, Word("--encoding"), Word("utf-8"),
            Word("--verbose"), BadMd>>,
          <<Word("--list-styles"), InMd, Word("-o"), OutHwpx>>}

\* a call and how it ended
Outcome(op, name, argv, fault, raised, stage, status, returned, created, active,
        before, read, wrote) ==
    [op |-> op, name |-> name, argv |-> argv, fault |-> fault, raised |-> raised,
     stage |-> stage, status |-> status, returned |-> returned, created |-> created,
     preset |-> active, before |-> before, read |-> read, wrote |-> wrote]

NoOutcome ==
    Outcome("none", "", << >>, "none", "none", "", -1, FALSE, {}, "",
            [files |-> << >>, dirs |-> {}], FALSE, FALSE)

InitApp ==
    /\ reg = NewRegistry
    /\ regLog = << >>
    /\ preset = [r \in Renderers |-> "default"]
    /\ styles = [r \in Renderers |-> BuildDefaultStyles]
    /\ rnd = [r \in Renderers |-> NewRenderer]
    /\ archive = [r \in Renderers |-> << >>]
    /\ lastDoc = [r \in Renderers |-> Doc(<< >>)]
    /\ uses = [r \in Renderers |-> "new"]
    /\ now = 1
    /\ tree = Doc(<< >>)
    /\ fs \in InitialFs
    /\ outcome = NoOutcome
    /\ req = << >>

\* StyleManager(name)
CallStyleManager ==
    /\ outcome.op = "none"
    /\ \E name \in NamesTried :
       \E sm \in {StyleManagerInit(name)} :
          outcome' = Outcome("StyleManager", name, << >>, "none", sm.raised,
                             IF sm.raised = "none" THEN "" ELSE "construct", -1, FALSE,
                             IF sm.raised = "none" THEN {"style_manager"} ELSE {},
                             sm.preset, fs, FALSE, FALSE)
    /\ UNCHANGED <<regVars, rndVars, fs, req>>

\* Converter(style_preset=name)
CallConverter ==
    /\ outcome.op = "none"
    /\ \E name \in NamesTried :
       \E conv \in {ConverterInit(name)} :
          outcome' = Outcome("Converter", name, << >>, "none", conv.raised,
                             IF conv.raised = "none" THEN "" ELSE "construct", -1, FALSE,
                             conv.created, conv.preset, fs, FALSE, FALSE)
    /\ UNCHANGED <<regVars, rndVars, fs, req>>

\* Converter(name).convert_file(input_path, output_path, encoding=encoding)
CallConvertFile ==
    /\ outcome.op = "none"
    /\ \E name \in Presets, input_path \in {InMd, BadMd, MissingMd},
          output_path \in {OutHwpx, OldHwpx}, encoding \in {"utf-8", "latin-x"},
          fault \in Faults :
       \E torn \in IF fault = "write" THEN BOOLEAN ELSE {FALSE} :
       \E done \in {ConvertFile(fs, name, input_path, output_path, encoding, fault,
                                torn, now)} :
          /\ fs' = done.fs
          /\ outcome' = Outcome("convert_file", name, <<input_path, output_path>>, fault,
                                done.raised, done.stage, -1, FALSE,
                                {"style_manager", "parser", "renderer"}, name, fs,
                                done.stage # "read", done.raised = "none")
    /\ UNCHANGED <<regVars, rndVars, req>>

\* HwpxRenderer(StyleManager(name)).render_to_file(doc, path)
CallRenderToFile ==
    /\ outcome.op = "none"
    /\ \E name \in Presets, doc \in {DocHeadingOnly, DocEmpty},
          path \in {OutHwpx, OldHwpx}, fault \in Faults \ {"parse", "mkdir"} :
       \E torn \in IF fault = "write" THEN BOOLEAN ELSE {FALSE} :
       \E done \in {RenderToFile(fs, name, doc, path, fault, torn, now)} :
          /\ fs' = done.fs
          /\ outcome' = Outcome("render_to_file", name, <<path>>, fault, done.raised,
                                done.stage, -1, FALSE, {"style_manager", "renderer"},
                                name, fs, FALSE, done.raised = "none")
    /\ UNCHANGED <<regVars, rndVars, req>>

\* main(argv)
CallMain ==
    /\ outcome.op = "none"
    /\ \E argv \in ArgvsTried, fault \in Faults :
       \E torn \in IF fault = "write" THEN BOOLEAN ELSE {FALSE} :
       \E done \in {Main(fs, argv, fault, torn, now)} :
          /\ fs' = done.fs
          /\ outcome' = Outcome("main", "", argv, fault, done.raised, "", done.status,
                                done.returned, {}, "", fs, done.read, done.wrote)
    /\ UNCHANGED <<regVars, rndVars, req>>

NextApp ==
    \/ CallStyleManager
    \/ CallConverter
    \/ CallConvertFile
    \/ CallRenderToFile
    \/ CallMain

SpecApp == InitApp /\ [][NextApp]_vars

-----------------------------------------------------------------------------
(* Properties of the library calls and of the command line (specification
   SpecApp) *)

\* the preset names of the statement of C17, spelled out
FourNames == {"default", "academic", "business", "minimal"}

\* C17: StyleManager(name) and Converter(name) with a name outside {default,
\* academic, business, minimal} raise ValueError before any parser or
\* renderer is created and with nothing converted or written; with each of
\* the four names the construction succeeds and records the name as the
\* active preset.
C17_PresetNames ==
    outcome.op \in {"StyleManager", "Converter"} =>
        IF outcome.name \in FourNames
        THEN /\ outcome.raised = "none"
             /\ outcome.preset = outcome.name
             /\ outcome.created = IF outcome.op = "Converter"
                                  THEN {"style_manager", "parser", "renderer"}
                                  ELSE {"style_manager"}
        ELSE /\ outcome.raised = "ValueError"
             /\ outcome.created = {}
             /\ outcome.preset = ""
             /\ fs = outcome.before

\* a Converter was asked for under a name that differs from a preset's only
\* in its case, and raised
C17_Witness ==
    /\ outcome.op = "Converter"
    /\ outcome.name = "Default"
    /\ outcome.raised # "none"

\* a Converter of the academic preset was constructed
C17_WitnessAccepted ==
    /\ outcome.op = "Converter"
    /\ outcome.name = "academic"
    /\ outcome.preset = "academic"

\* the stages of a conversion that come before anything is written
StagesBeforeOutput == {"read", "decode", "parse", "render", "package"}

\* C18: when convert_file or render_to_file fails while reading or decoding
\* the input, parsing, rendering or packaging, no file has been created or
\* changed and no directory has been created: the file system is as it was
\* before the call. The output's directory is made and the output written
\* only once the whole archive exists.
C18_NoPartialOutput ==
    outcome.op \in {"convert_file", "render_to_file"} =>
        /\ (outcome.raised # "none" /\ outcome.stage \in StagesBeforeOutput)
           => fs = outcome.before
        /\ fs # outcome.before
           => (outcome.raised = "none" \/ outcome.stage \in {"mkdir", "write"})

\* convert_file was given an output in a directory that does not exist and an
\* older file system, and failed in the packaging
C18_Witness ==
    /\ outcome.op = "convert_file"
    /\ outcome.raised # "none"
    /\ outcome.stage = "package"
    /\ outcome.argv[2] = OutHwpx
    /\ "out" \notin outcome.before.dirs

\* convert_file failed decoding its input, its output being a file that exists
C18_WitnessDecode ==
    /\ outcome.op = "convert_file"
    /\ outcome.stage = "decode"
    /\ outcome.argv[2] \in DOMAIN outcome.before.files

\* convert_file made the directory of its output and wrote the output
C18_WitnessWritten ==
    /\ outcome.op = "convert_file"
    /\ outcome.raised = "none"
    /\ "out" \notin outcome.before.dirs
    /\ "out" \in fs.dirs
    /\ OutHwpx \in DOMAIN fs.files

\* the command line holds the option word s
HasOption(argv, s) == \E i \in 1..Len(argv) : argv[i] = Word(s)

\* the command line is made of option words only: no word of it can be the
\* input
OnlyOptions(argv) == \A i \in 1..Len(argv) : argv[i] \in OptionWords

\* the command line holds --version, -h or --help
HasExitOption(argv) == \E s \in ExitOptions : HasOption(argv, s)

\* an archive has been written to some file
OutputWritten ==
    \E p \in DOMAIN fs.files : fs.files[p].kind = "hwpx" /\ fs.files[p].data # << >>

\* C19 as stated: main ends with a non-zero status when no input argument is
\* given and --list-styles is not set; it ends with 0 only after the output
\* has been written or when --list-styles is given.
C19_AsStated ==
    outcome.op = "main" =>
        /\ (OnlyOptions(outcome.argv) /\ ~HasOption(outcome.argv, "--list-styles"))
           => outcome.status # 0
        /\ outcome.status = 0
           => (outcome.wrote \/ HasOption(outcome.argv, "--list-styles"))

\* C19, amended: main ends with a non-zero status when no input argument is
\* given, when the input is not an existing file (in both cases: unless
\* --list-styles, --version, -h or --help is on the command line), and when
\* the conversion raises an exception. It returns 0 only after the output
\* file has been written, or when --list-styles is given; the process also
\* ends with status 0, main not returning, where --version, -h or --help
\* stands on the command line. Whenever it ends with 0 without having written
\* the output, no input has been read and no file written.
C19_ExitStatus ==
    outcome.op = "main" =>
        \A parsed \in {ParseArgs(outcome.argv)} :
            /\ (/\ OnlyOptions(outcome.argv) \/ parsed.args.input = NoWord
                /\ ~HasOption(outcome.argv, "--list-styles")
                /\ ~HasExitOption(outcome.argv))
               => outcome.status # 0
            /\ (/\ parsed.args.input \notin DOMAIN outcome.before.files
                /\ ~HasOption(outcome.argv, "--list-styles")
                /\ ~HasExitOption(outcome.argv))
               => outcome.status # 0
            /\ outcome.raised # "none" => outcome.status # 0
            /\ (outcome.status = 0 /\ outcome.returned)
               => \/ outcome.wrote /\ OutputWritten
                  \/ HasOption(outcome.argv, "--list-styles")
            /\ (outcome.status = 0 /\ ~outcome.returned) => HasExitOption(outcome.argv)
            /\ (outcome.status = 0 /\ ~outcome.wrote)
               => ~outcome.read /\ fs = outcome.before

\* main was given an input that exists, the conversion raised while
\* rendering, and main returned 1
C19_Witness ==
    /\ outcome.op = "main"
    /\ outcome.raised # "none"
    /\ outcome.fault = "render"
    /\ outcome.returned
    /\ outcome.status = 1

\* main was given --version alone and the process ended with status 0
C19_WitnessVersion ==
    /\ outcome.op = "main"
    /\ outcome.argv = <<Word("--version")>>
    /\ outcome.status = 0

\* main wrote the output next to its input and returned 0
C19_WitnessWritten ==
    /\ outcome.op = "main"
    /\ outcome.argv = <<InMd>>
    /\ outcome.status = 0
    /\ PathOf("", "in", ".hwpx") \in DOMAIN fs.files

-----------------------------------------------------------------------------
(* server.py : the conversion requests of the network service *)

MaxRequests == 2    \* the requests in flight

Requests == 1..MaxRequests

\* a Converter: its style manager's preset and table, and its renderer
ConverterOfPreset(name) ==
    [preset |-> name, styles |-> LoadPreset(name), renderer |-> NewRenderer]

\* a request: its endpoint and form fields (the Markdown text as the tree it
\* parses to, decodable telling whether an upload's bytes decode), where its
\* handler stands, the converter it holds and its response
Request(endpoint, style, doc, decodable, pc, converter, status, data) ==
    [endpoint |-> endpoint, style |-> style, doc |-> doc, decodable |-> decodable,
     pc |-> pc, converter |-> converter, status |-> status, data |-> data]

NoRequest ==
    Request("", "default", DocEmpty, TRUE, "idle", ConverterOfPreset("default"), 0, << >>)

\* the styles requests ask for, and what they send
StylesAsked == {"default", "academic", "bogus"}
DocsSent == {DocHeadingOnly, Doc(<<P(<<T(S_a)>>), P(<<T(S_ab)>>)>>)}

\* A handler that takes the converter of the first request for its own.
ConverterOfFirst(reqs, i) == reqs[1].converter

\* the local variable converter of the handler of request i
ConverterOf(reqs, i) == reqs[i].converter

InitServer ==
    /\ reg = NewRegistry
    /\ regLog = << >>
    /\ preset = [r \in Renderers |-> "default"]
    /\ styles = [r \in Renderers |-> BuildDefaultStyles]
    /\ rnd = [r \in Renderers |-> NewRenderer]
    /\ archive = [r \in Renderers |-> << >>]
    /\ lastDoc = [r \in Renderers |-> Doc(<< >>)]
    /\ uses = [r \in Renderers |-> "new"]
    /\ now = 1
    /\ tree = Doc(<< >>)
    /\ fs = << >>
    /\ outcome = << >>
    /\ req = [i \in Requests |-> NoRequest]

\* POST /convert arrives: the handler starts and waits at `await file.read()`
ArriveConvert(i) ==
    /\ req[i].pc = "idle"
    /\ \E style \in StylesAsked, doc \in DocsSent, decodable \in BOOLEAN :
          req' = [req EXCEPT ![i] = [NoRequest EXCEPT !.endpoint = "/convert",
                                                      !.style = style, !.doc = doc,
                                                      !.decodable = decodable,
                                                      !.pc = "reading"]]
    /\ UNCHANGED <<regVars, rndVars, fs, outcome>>

\* POST /convert/text arrives: the handler starts
ArriveConvertText(i) ==
    /\ req[i].pc = "idle"
    /\ \E style \in StylesAsked, doc \in DocsSent :
          req' = [req EXCEPT ![i] = [NoRequest EXCEPT !.endpoint = "/convert/text",
                                                      !.style = style, !.doc = doc,
                                                      !.pc = "ready"]]
    /\ UNCHANGED <<regVars, rndVars, fs, outcome>>

\* convert_file after its await: md_text = raw.decode(encoding), which raises
\* on bytes that do not decode (the response is then a 500)
Decode(i) ==
    /\ req[i].pc = "reading"
    /\ req' = [req EXCEPT ![i] = IF req[i].decodable
                                 THEN [@ EXCEPT !.pc = "ready"]
                                 ELSE [@ EXCEPT !.pc = "done", !.status = 500]]
    /\ UNCHANGED <<regVars, rndVars, fs, outcome>>

\* converter = Converter(style_preset=style), which raises on an unknown style
Construct(i) ==
    /\ req[i].pc = "ready"
    /\ \E conv \in {ConverterInit(req[i].style)} :
          req' = [req EXCEPT ![i] =
                     IF conv.raised # "none"
                     THEN [@ EXCEPT !.pc = "done", !.status = 500]
                     ELSE [@ EXCEPT !.pc = "constructed",
                                    !.converter = ConverterOfPreset(conv.preset)]]
    /\ UNCHANGED <<regVars, rndVars, fs, outcome>>

\* hwpx_bytes = converter.convert_text(...) and the Response
Respond(i) ==
    /\ req[i].pc = "constructed"
    /\ \E conv \in {ConverterOf(req, i)} :
       \E res \in {Render(conv.renderer, conv.styles, req[i].doc, now)} :
          req' = [req EXCEPT ![i] =
                     [@ EXCEPT !.pc = "done", !.status = 200, !.data = res.data,
                               !.converter =
                                   [preset |-> conv.preset, styles |-> res.st.styles,
                                    renderer |-> [para_id |-> res.st.para_id,
                                                  preview_lines |-> res.st.preview_lines,
                                                  registry |-> res.st.registry]]]]
    /\ UNCHANGED <<regVars, rndVars, fs, outcome>>

NextServer ==
    \E i \in Requests :
        \/ ArriveConvert(i)
        \/ ArriveConvertText(i)
        \/ Decode(i)
        \/ Construct(i)
        \/ Respond(i)

SpecServer == InitServer /\ [][NextServer]_vars

-----------------------------------------------------------------------------
(* Properties of the network service (specification SpecServer) *)

\* the parts of an archive that hold the style ids, the paragraph ids, the
\* header entries and the preview lines
ContentParts == {"Contents/header.xml", "Contents/section0.xml", "Preview/PrvText.txt"}

\* what the request would get if it ran alone: a new Converter of its style
\* converting its text
Alone(r) ==
    Render(ConverterOfPreset(r.style).renderer, ConverterOfPreset(r.style).styles,
           r.doc, now).data

\* C20: whatever the interleaving of the /convert and /convert/text requests,
\* the archive a request is answered with has the header, section and preview
\* parts (style ids, paragraph ids, header entries, preview lines) that the
\* request would get if it ran alone, each request converting with a
\* Converter of its own.
C20_RequestsIndependent ==
    \A i \in Requests :
        req[i].status = 200 =>
            /\ req[i].converter.preset = req[i].style
            /\ \A name \in ContentParts :
                  Part(req[i].data, name).data = Part(Alone(req[i]), name).data

\* two requests of different styles, one to each endpoint: the second has been
\* answered while the handler of the first holds its converter
C20_Witness ==
    /\ req[1].endpoint = "/convert"
    /\ req[1].pc = "constructed"
    /\ req[2].endpoint = "/convert/text"
    /\ req[2].status = 200
    /\ req[1].style # req[2].style

-----------------------------------------------------------------------------
(* Blocks without runs, image placeholders and links (specification SpecTree) *)

\* the node kinds whose block renderer builds its paragraph from collected
\* runs, list items and footnote definitions apart
RunBlocks ==
    {"heading", "paragraph", "text", "bold", "italic", "strikethrough",
     "inline_code", "link"}

\* the run list collected for block node under renderer r's styles is empty
NoRuns(r, node) ==
    /\ CollectInlineRuns(node, GetStyle(styles[r], "body").font, styles[r]).runs = << >>
    /\ node.type = "link" => node.url = << >>

\* the fragments of renderer r's section: what follows the first paragraph
Fragments(r) == Tail(PartData(r, "Contents/section0.xml"))

\* C21 as stated: a block-level node (list items and footnote definitions
\* apart) whose collected run list is empty, such as a heading without text or
\* a block-level link without children and url, gives no fragment; so every
\* paragraph among the fragments of the content part, cell paragraphs
\* included, has at least one run with non-empty text.
C21_AsStated ==
    \A r \in Rendered :
        /\ \A i \in 1..Len(lastDoc[r].children) :
              (/\ lastDoc[r].children[i].type \in RunBlocks
               /\ NoRuns(r, lastDoc[r].children[i]))
              => RenderNode(RenderFirstIds(WithStyles(NewRenderer, styles[r])),
                            lastDoc[r].children[i]).els = << >>
        /\ \A p \in SectionParas(Fragments(r)) :
              \E k \in 1..Len(p.runs) : p.runs[k].t # << >>

\* renderer r's last tree is one image as a block, then a paragraph holding
\* the same image
ImagePair(r) ==
    /\ Len(lastDoc[r].children) = 2
    /\ lastDoc[r].children[1].type = "image"
    /\ lastDoc[r].children[2] = P(<<lastDoc[r].children[1]>>)

\* C22 as stated: for every image node, whatever alt text, title and url it
\* carries, the placeholder text of the image rendered as a block equals the
\* placeholder text of the same image collected as an inline run of a
\* paragraph.
C22_AsStated ==
    \A r \in Rendered :
        ImagePair(r) =>
            /\ Len(Fragments(r)) = 2
            /\ RunsText(Fragments(r)[1]) = RunsText(Fragments(r)[2])

\* renderer r's last tree is one link as a block
OneLink(r) ==
    /\ Len(lastDoc[r].children) = 1
    /\ lastDoc[r].children[1].type = "link"

\* the font of run k of paragraph p of renderer r's section
FontOfRun(r, p, k) == rnd[r].registry.char_list[p.runs[k].charPrIDRef + 1]

\* the texts of the runs collected from the children of link node
LinkChildTexts(r, node) ==
    Let(CollectInlineRuns(node, GetStyle(styles[r], "body").font, styles[r]).runs,
        LAMBDA runs : [k \in 1..Len(runs) |-> runs[k].text])

\* paragraph p holds the runs texts in the link font and then, when url is
\* not empty, the run " (url)" in the reduced-size muted font
LinkParagraph(r, p, texts, url) ==
    /\ Len(p.runs) = Len(texts) + (IF url # << >> THEN 1 ELSE 0)
    /\ \A k \in 1..Len(texts) :
          /\ p.runs[k].t = texts[k]
          /\ FontOfRun(r, p, k).underline
          /\ FontOfRun(r, p, k).color = LinkOverrides.color
    /\ url # << >> =>
          /\ p.runs[Len(p.runs)].t = <<" ", "(">> \o url \o <<")">>
          /\ FontOfRun(r, p, Len(p.runs)).size_pt = 80
          /\ FontOfRun(r, p, Len(p.runs)).color = "#666666"

\* C23 as stated: a block-level link gives exactly one paragraph: the runs of
\* its children in the link font (underline, link colour), then, when the url
\* is not empty, one run " (<url>)" in the reduced-size muted font; when the
\* children give no runs and the url is not empty, the visible text of the
\* paragraph is the url itself.
C23_AsStated ==
    \A r \in Rendered :
        OneLink(r) =>
            /\ Len(Fragments(r)) = 1
            /\ \A node \in {lastDoc[r].children[1]} :
               \A texts \in {LinkChildTexts(r, node)} :
                  IF texts = << >> /\ node.url # << >>
                  THEN RunsText(Fragments(r)[1]) = node.url
                  ELSE LinkParagraph(r, Fragments(r)[1], texts, node.url)

-----------------------------------------------------------------------------
(* Malformed trees (specification SpecTree) *)

\* node is a table with a row
HasRows(node) == node.type = "table" /\ node.children # << >>

\* the subtrees C24 calls malformed, as children of the document: a table
\* whose first row has no cells, a table whose children are not rows, a node
\* kind with no handler
MalformedAsStated(node) ==
    \/ node.type = "unknown"
    \/ /\ HasRows(node)
       /\ \/ node.children[1].children = << >>
          \/ \E i \in 1..Len(node.children) : node.children[i].type # "table_row"

\* the subtrees that render to nothing, as children of the document: a node
\* kind with no handler, a table without rows, a row or a cell outside a table
RendersNothing(node) ==
    \/ node.type \in {"unknown", "table_row", "table_cell"}
    \/ node.type = "table" /\ node.children = << >>

\* renderer r's archive has every part, and its header, section and preview
\* parts are those of a fresh renderer given the tree doc
SameAsRendering(r, doc) ==
    /\ [i \in 1..Len(archive[r]) |-> archive[r][i].name] = WriteOrder
    /\ \A clean \in {Render(NewRenderer, LoadPreset(preset[r]), doc, now)} :
       \A name \in {"Contents/header.xml", "Contents/section0.xml",
                    "Preview/PrvText.txt"} :
           PartData(r, name) = Part(clean.data, name).data

\* doc without those of its children that Test holds of
Without(doc, Test(_)) == Doc(SelectSeq(doc.children, LAMBDA node : ~Test(node)))

-----------------------------------------------------------------------------
(* The two table renderers (specification SpecTree) *)

\* the rows of table node hold only cell nodes
OnlyCells(node) ==
    \A ri \in 1..Len(node.children) :
        /\ node.children[ri].type = "table_row"
        /\ \A ci \in 1..Len(node.children[ri].children) :
              node.children[ri].children[ci].type = "table_cell"

\* C25 as stated: for every table whose rows hold only cell nodes, rows
\* shorter or longer than the first row included, _render_table of the
\* renderer and TableHandler.render_table give the same number of cells in
\* each row.
C25_AsStated ==
    \A r \in Rendered :
        (OnlyTables(r) /\ outcome # << >>) =>
            \A i \in 1..Len(lastDoc[r].children) :
                OnlyCells(lastDoc[r].children[i]) =>
                    \A ri \in 1..Len(lastDoc[r].children[i].children) :
                        Len(Fragments(r)[i].runs[1].tbl[1].rows[ri])
                           = Len(outcome[i].tbl[1].rows[ri])

-----------------------------------------------------------------------------
(* The preview line of a table (specification SpecTree) *)

\* renderer r's last tree is made of tables, with or without rows
AllTables(r) ==
    /\ lastDoc[r].children # << >>
    /\ \A i \in 1..Len(lastDoc[r].children) : lastDoc[r].children[i].type = "table"

\* C26 as stated: rendering a table appends exactly one "[Table]" preview
\* line, whatever its rows and columns, a table with no rows included, and no
\* other preview line for its rows or cells.
C26_AsStated ==
    \A r \in Rendered :
        AllTables(r) =>
            rnd[r].preview_lines = [k \in 1..Len(lastDoc[r].children) |-> S_Table]

\* C26: rendering a table with at least one row appends exactly one "[Table]"
\* preview line, whatever its rows and columns, and no other preview line for
\* its rows or cells; a table with no rows appends no preview line.
C26_TablePreview ==
    \A r \in Rendered :
        AllTables(r) =>
            rnd[r].preview_lines =
                [k \in 1..Len(SelectSeq(lastDoc[r].children, HasRows)) |-> S_Table]

\* a tree of a table of several rows and cells with text and of tables with no
\* rows was rendered, and the preview holds one line
C26_Witness ==
    \E r \in Rendered :
        /\ AllTables(r)
        /\ Len(lastDoc[r].children) = 3
        /\ \E i \in 1..3 :
              /\ Len(lastDoc[r].children[i].children) > 1
              /\ Len(lastDoc[r].children[i].children[1].children) > 1
              /\ ExtractPlainText(lastDoc[r].children[i]) # << >>
        /\ rnd[r].preview_lines = <<S_Table>>

-----------------------------------------------------------------------------
(* The order of a list's fragments and preview lines (specification SpecTree) *)

\* the text of the paragraph and text children of item, in child order
OwnText(item) ==
    Concat([k \in 1..Len(item.children) |->
               IF item.children[k].type \in {"paragraph", "text"}
               THEN ExtractPlainText(item.children[k]) ELSE << >>])

\* the texts of the fragments els
TextsOf(els) == [i \in 1..Len(els) |-> RunsText(els[i])]

RECURSIVE ListTexts(_, _, _)
RECURSIVE ItemTexts(_, _, _, _, _)
\* the texts C27 asks of the fragments of list at depth depth under the style
\* table sty: those of its items, in sibling order
ListTexts(sty, list, depth) ==
    Concat([i \in 1..Len(list.children) |->
               ItemTexts(sty, list.children[i], list.type = "ordered_list",
                         list.start + i - 1, depth)])

\* the texts C27 asks of the fragments of one item: first the item's own
\* paragraph (the prefix and the text of all its paragraph and text children,
\* or the prefix alone), then, in child order, the fragments of its nested
\* lists and of its other children
ItemTexts(sty, item, ordered, number, depth) ==
    <<IF OwnText(item) # << >>
      THEN ListPrefix(item, ordered, number, depth) \o OwnText(item)
      ELSE RStrip(ListPrefix(item, ordered, number, depth))>>
    \o Concat([k \in 1..Len(item.children) |->
                  IF item.children[k].type \in {"paragraph", "text"} THEN << >>
                  ELSE IF item.children[k].type \in ListTypes
                  THEN ListTexts(sty, item.children[k], depth + 1)
                  ELSE TextsOf(RenderNode(RenderFirstIds(WithStyles(NewRenderer, sty)),
                                          item.children[k]).els)])

\* renderer r's last tree is made of lists
AllLists(r) ==
    /\ lastDoc[r].children # << >>
    /\ \A i \in 1..Len(lastDoc[r].children) : lastDoc[r].children[i].type \in ListTypes

\* C27: a list item's fragments start with exactly one paragraph for the item
\* itself (the prefix and all its paragraph and text children merged into its
\* runs, or the prefix alone when it has none), followed by the fragments of
\* its nested lists and other children in child order; no nested fragment
\* comes before the item's own paragraph, and the items of one list come in
\* sibling order.
C27_ItemFragments ==
    \A r \in Rendered :
        AllLists(r) =>
            TextsOf(Fragments(r)) =
                Concat([i \in 1..Len(lastDoc[r].children) |->
                           ListTexts(styles[r], lastDoc[r].children[i], 0)])

\* a list was rendered whose first item holds a list, a paragraph, a code
\* block, a text and another list, in this order, and whose first fragment
\* carries the text of the paragraph and of the text
C27_Witness ==
    \E r \in Rendered :
        /\ AllLists(r)
        /\ lastDoc[r].children[1].children[1] = MixedItem
        /\ Len(Fragments(r)) >= 6
        /\ IsInfix(<<" ", "a", "b">>, RunsText(Fragments(r)[1]))
        /\ RunsText(Fragments(r)[2]) = <<"7", ".", " ", "c">>
        /\ RunsText(Fragments(r)[3]) = <<"x">>

\* the preview line of the item e of ItemsInOrder
PreviewLineOf(e) ==
    <<" ", " ">> \o Repeat(" ", 2 * e.direct)
    \o ListPrefix(e.item, e.ordered, e.number, e.direct)
    \o Take(Strip(ExtractPlainText(e.item)), 80)

\* C28 as stated: the preview lines of a list are appended in document order:
\* the line of an item that holds a nested list comes before the lines of the
\* nested list's items, as their paragraphs do in the content part. (Said of
\* the trees of one list that append one line per item and no other.)
C28_AsStated ==
    \A r \in Rendered :
        (OnlyList(r) /\ Len(rnd[r].preview_lines) = Len(ListItemsOf(r))) =>
            rnd[r].preview_lines =
                [j \in 1..Len(ListItemsOf(r)) |-> PreviewLineOf(ListItemsOf(r)[j])]

-----------------------------------------------------------------------------
(* The ids of a content part (specification SpecTree) *)

\* the hp:p elements of a section, where they stand: <<i>> for paragraph i of
\* the section, <<i, ri, ci>> for the paragraph of cell ci of row ri of the
\* table it wraps
ParaPlaces(sec) ==
    {<<i>> : i \in 1..Len(sec)}
    \cup {<<i, ri, ci>> : i \in {k \in 1..Len(sec) : sec[k].runs # << >>
                                                      /\ sec[k].runs[1].tbl # << >>},
                          ri \in 1..MaxRows, ci \in 1..(MaxCols + 2)}

\* place pl holds a paragraph of the section
IsPlace(sec, pl) ==
    Len(pl) = 3 =>
        /\ pl[2] <= Len(sec[pl[1]].runs[1].tbl[1].rows)
        /\ pl[3] <= Len(sec[pl[1]].runs[1].tbl[1].rows[pl[2]])

\* the id of the paragraph at place pl
ParaIdAt(sec, pl) ==
    IF Len(pl) = 1 THEN sec[pl[1]].id
    ELSE sec[pl[1]].runs[1].tbl[1].rows[pl[2]][pl[3]].para.id

\* the paragraphs of section sec that wrap a table
TablePlaces(sec) ==
    {i \in 1..Len(sec) : sec[i].runs # << >> /\ sec[i].runs[1].tbl # << >>}

\* C29 as stated: within one content part no two paragraph elements (first,
\* body, table-cell, table wrapper, fallback) share an id, no two table
\* elements share an id, and no table id equals a paragraph id, whatever the
\* size of the document.
C29_AsStated ==
    \A r \in Rendered : \A sec \in {PartData(r, "Contents/section0.xml")} :
        \A places \in {{pl \in ParaPlaces(sec) : IsPlace(sec, pl)}} :
            /\ \A p1 \in places : \A p2 \in places :
                  p1 # p2 => ParaIdAt(sec, p1) # ParaIdAt(sec, p2)
            /\ \A t1 \in TablePlaces(sec) : \A t2 \in TablePlaces(sec) :
                  t1 # t2 => sec[t1].runs[1].tbl[1].id # sec[t2].runs[1].tbl[1].id
            /\ \A t1 \in TablePlaces(sec) : \A p1 \in places :
                  sec[t1].runs[1].tbl[1].id # ParaIdAt(sec, p1)

-----------------------------------------------------------------------------
(* The shape of a table element (specification SpecTree) *)

RECURSIVE SumWidths(_)
\* the sum of the widths of the cells of a row
SumWidths(row) == IF row = << >> THEN 0 ELSE Head(row).width + SumWidths(Tail(row))

\* C30 as stated: in every rendered table the number of row elements is
\* rowCnt, every cell's rowAddr is in [0, rowCnt) and its colAddr in
\* [0, colCnt), no two cells share (rowAddr, colAddr), colCnt is at least 1,
\* and in every row the cell widths, 42520 // colCnt each, sum to at most
\* 42520.
C30_AsStated ==
    \A r \in Rendered : \A sec \in {PartData(r, "Contents/section0.xml")} :
        \A i \in TablePlaces(sec) : \A t \in {sec[i].runs[1].tbl[1]} :
            /\ Len(t.rows) = t.rowCnt
            /\ t.colCnt >= 1
            /\ \A ri \in 1..Len(t.rows) :
                  /\ \A ci \in 1..Len(t.rows[ri]) :
                        /\ t.rows[ri][ci].rowAddr \in 0..(t.rowCnt - 1)
                        /\ t.rows[ri][ci].colAddr \in 0..(t.colCnt - 1)
                        /\ t.rows[ri][ci].width = PageContentWidth \div t.colCnt
                        /\ \A rj \in 1..Len(t.rows) : \A cj \in 1..Len(t.rows[rj]) :
                              (t.rows[ri][ci].rowAddr = t.rows[rj][cj].rowAddr
                               /\ t.rows[ri][ci].colAddr = t.rows[rj][cj].colAddr)
                              => (ri = rj /\ ci = cj)
                  /\ SumWidths(t.rows[ri]) <= PageContentWidth
=============================================================================
